---- MODULE Spec2Model ----
(***************************************************************************)
(* Model of the twitter-capture extraction pipeline.                       *)
(*                                                                         *)
(* Strings are TLA+ strings handled character by character (Len, SubSeq,   *)
(* \o), so substring tests, str.replace and the regular expressions of the *)
(* source are computed on the same text the program sees.                  *)
(*                                                                         *)
(* Specifications:                                                         *)
(*   SpecCanon  URL recognition and the source-host to proxy-host rewrite  *)
(*   SpecPhoto  the photo resolution rewrite                               *)
(*   Spec       one call of extract_tweet_data                             *)
(*   SpecBot    handle_twitter_url delivering one result to the chat       *)
(*   SpecConc   two calls of extract_tweet_data interleaved at their awaits *)
(*   SpecAuthor the author resolution chain of the article (src/bot.py)    *)
(*   SpecLoop   handle_twitter_url looping over the URLs of one message    *)
(***************************************************************************)
EXTENDS Integers, Sequences, FiniteSets, TLC

VARIABLES
    cpc,        \* SpecCanon: position ("idle", "input", "url", "once", "twice")
    cVariant,   \* SpecCanon: which variant of the code handles the text
    cText,      \* SpecCanon: the text token received
    cUrl,       \* SpecCanon: the URL the recogniser hands to the extractor
    cCanon,     \* SpecCanon: the URL after one host rewrite
    cCanon2,    \* SpecCanon: the URL after a second host rewrite
    ppc,        \* SpecPhoto: position ("idle", "src", "item", "skipped", "again")
    pVariant,   \* SpecPhoto: which variant of the code classifies the image
    pSrc,       \* SpecPhoto: the src attribute of the <img> element
    pItem,      \* SpecPhoto: the media item the image loop produced for it
    pAgain,     \* SpecPhoto: the item produced when the delivered URL is the src
    pc,         \* Spec: position of the call of extract_tweet_data
    url,        \* Spec: the argument of the call
    fx_url,     \* Spec: the rewritten URL
    response,   \* Spec: the response of the fast-path GET
    html,       \* Spec: response.text
    dom,        \* Spec: the document the browser rendered
    ret,        \* Spec: the value a return statement inside the try block is about to return
    handling,   \* Spec: TRUE inside the inner except block (lines 340-344)
    playwright, \* Spec: the Playwright driver ("none", "started", "stopped")
    browser,    \* Spec: the browser process ("none", "open", "closed")
    result,     \* Spec: what the call returned
    via,        \* Spec: the branch that decided the returned value
    trace,      \* Spec: the operations performed so far, in order
    bpc,        \* SpecBot: position of handle_twitter_url for one URL
    bUrl,       \* SpecBot: the URL being processed
    bData,      \* SpecBot: tweet_data, what extract_tweet_data returned
    bCaption,   \* SpecBot: caption
    bMedia,     \* SpecBot: the media list handed to the sender
    bOk,        \* SpecBot: positions of bMedia whose first download succeeded
    bGroup,     \* SpecBot: media_group
    bIdx,       \* SpecBot: position of the loop of individual sends
    bSent,      \* SpecBot: the messages Telegram accepted, in order
    bProcessing,\* SpecBot: the "Extracting media..." message ("none", "shown", "deleted")
    bRaised,    \* SpecBot: the Telegram calls that raised, in order
    kpc,        \* SpecConc: position of each call
    kUrl,       \* SpecConc: the argument of each call
    kReq,       \* SpecConc: the URL of the GET each call has sent
    kResult,    \* SpecConc: what each call returned
    cellFx,     \* SpecConc: fx_url, per frame
    cellHtml,   \* SpecConc: html, per frame
    cellPage,   \* SpecConc: the document of page, per frame
    cellData,   \* SpecConc: the value the call is about to return, per frame
    netResp,    \* SpecConc: the proxy's response to a GET, per URL
    netDom,     \* SpecConc: the document the browser renders, per URL
    kOverlap,   \* SpecConc: TRUE once the calls have run interleaved
    apc,        \* SpecAuthor: the method that runs next
    aHasName,   \* SpecAuthor: the article has a [data-testid="User-Name"] element
    aSpans,     \* SpecAuthor: the texts of its <span> elements
    aLinks,     \* SpecAuthor: the <a> elements of the article, in document order
    aPath,      \* SpecAuthor: window.location.pathname
    aAuthor,    \* SpecAuthor: username and handle
    aTrail,     \* SpecAuthor: username and handle after each method, in order
    lpc,        \* SpecLoop: position of handle_twitter_url
    lWords,     \* SpecLoop: text.split() of the message
    lUrls,      \* SpecLoop: twitter_urls
    lIdx,       \* SpecLoop: position in twitter_urls of the URL being processed
    lPath,      \* SpecLoop: what the try block did for this URL
    lCaught,    \* SpecLoop: TRUE once the except block ran for this URL
    lPending,   \* SpecLoop: TRUE while an exception of the except block is in flight
    lLog        \* SpecLoop: URLs started, processing messages shown and deletions attempted

canonVars == <<cpc, cVariant, cText, cUrl, cCanon, cCanon2>>
photoVars == <<ppc, pVariant, pSrc, pItem, pAgain>>
pipeVars == <<pc, url, fx_url, response, html, dom, ret, handling, playwright, browser,
              result, via, trace>>
botVars == <<bpc, bUrl, bData, bCaption, bMedia, bOk, bGroup, bIdx, bSent, bProcessing, bRaised>>
concVars == <<kpc, kUrl, kReq, kResult, cellFx, cellHtml, cellPage, cellData, netResp, netDom, kOverlap>>
authorVars == <<apc, aHasName, aSpans, aLinks, aPath, aAuthor, aTrail>>
loopVars == <<lpc, lWords, lUrls, lIdx, lPath, lCaught, lPending, lLog>>
vars == <<canonVars, photoVars, pipeVars, botVars, concVars, authorVars, loopVars>>

\* what a step of one specification leaves alone
CanonOnly == UNCHANGED <<photoVars, pipeVars, botVars, concVars, authorVars, loopVars>>
PhotoOnly == UNCHANGED <<canonVars, pipeVars, botVars, concVars, authorVars, loopVars>>
PipeOnly == UNCHANGED <<canonVars, photoVars, botVars, concVars, authorVars, loopVars>>
BotOnly == UNCHANGED <<canonVars, photoVars, pipeVars, concVars, authorVars, loopVars>>
ConcOnly == UNCHANGED <<canonVars, photoVars, pipeVars, botVars, authorVars, loopVars>>
AuthorOnly == UNCHANGED <<canonVars, photoVars, pipeVars, botVars, concVars, loopVars>>
LoopOnly == UNCHANGED <<canonVars, photoVars, pipeVars, botVars, concVars, authorVars>>

(***************************************************************************)
(* String primitives (Python str / re and JavaScript String semantics)     *)
(***************************************************************************)
NoMatch == "<no match>"

\* a media item of the Playwright-only variants: {"type": ..., "url": ...}
NoItem == [type |-> "none", url |-> ""]
Item(t, u) == [type |-> t, url |-> u]

\* the variables of a specification that is not running
CanonIdle ==
    /\ cpc = "idle" /\ cVariant = "none" /\ cText = ""
    /\ cUrl = NoMatch /\ cCanon = "" /\ cCanon2 = ""

PhotoIdle ==
    /\ ppc = "idle" /\ pVariant = "none" /\ pSrc = "" /\ pItem = NoItem /\ pAgain = NoItem

\* ---- results of extract_tweet_data ----
Pending == [kind |-> "pending", error |-> "", username |-> "", handle |-> "", text |-> "",
            media_urls |-> <<>>, video_urls |-> <<>>, timestamp |-> ""]
\* return None
None == [Pending EXCEPT !.kind = "None"]
\* an exception leaves the function
Raised == [Pending EXCEPT !.kind = "raised"]
\* return {'error': 'twitter_error', 'message': ...}
TwitterError == [Pending EXCEPT !.kind = "error", !.error = "twitter_error"]
\* return {'username': ..., 'handle': ..., 'text': ..., 'media_urls': ..., 'video_urls': ..., 'timestamp': ...}
TweetData(u, h, t, m, v, ts) ==
    [kind |-> "data", error |-> "", username |-> u, handle |-> h, text |-> t,
     media_urls |-> m, video_urls |-> v, timestamp |-> ts]

NoResponse == [status_code |-> 0, text |-> ""]
NoDom == [metas |-> <<>>, body |-> "", article |-> FALSE, hasName |-> FALSE, nameSpans |-> <<>>,
          hasLang |-> FALSE, langSpans |-> <<>>, langText |-> "", elems |-> <<>>, time |-> "",
          pathname |-> ""]

PipeIdle ==
    /\ pc = "idle" /\ url = "" /\ fx_url = "" /\ response = NoResponse /\ html = ""
    /\ dom = NoDom /\ ret = Pending /\ handling = FALSE
    /\ playwright = "none" /\ browser = "none"
    /\ result = Pending /\ via = "" /\ trace = <<>>

BotIdle ==
    /\ bpc = "idle" /\ bUrl = "" /\ bData = Pending /\ bCaption = "" /\ bMedia = <<>>
    /\ bOk = {} /\ bGroup = <<>> /\ bIdx = 0 /\ bSent = <<>>
    /\ bProcessing = "none" /\ bRaised = <<>>

ConcIdle ==
    /\ kpc = <<>> /\ kUrl = <<>> /\ kReq = <<>> /\ kResult = <<>>
    /\ cellFx = <<>> /\ cellHtml = <<>> /\ cellPage = <<>> /\ cellData = <<>>
    /\ netResp = <<>> /\ netDom = <<>> /\ kOverlap = FALSE

AuthorIdle ==
    /\ apc = "idle" /\ aHasName = FALSE /\ aSpans = <<>> /\ aLinks = <<>> /\ aPath = ""
    /\ aAuthor = [username |-> "", handle |-> ""] /\ aTrail = <<>>

LoopIdle ==
    /\ lpc = "idle" /\ lWords = <<>> /\ lUrls = <<>> /\ lIdx = 0 /\ lPath = ""
    /\ lCaught = FALSE /\ lPending = FALSE /\ lLog = <<>>

\* s[i:] of Python, 1-based
Drop(s, n) == SubSeq(s, n + 1, Len(s))
Take(s, n) == SubSeq(s, 1, n)
CharAt(s, i) == SubSeq(s, i, i)

\* s.startswith(p) at 1-based offset i
MatchesAt(s, p, i) == i >= 1 /\ i + Len(p) - 1 <= Len(s) /\ SubSeq(s, i, i + Len(p) - 1) = p
StartsWith(s, p) == MatchesAt(s, p, 1)

\* the positions at which p occurs in s
Occurrences(s, p) == {i \in 1..(Len(s) - Len(p) + 1) : SubSeq(s, i, i + Len(p) - 1) = p}

\* p in s (Python), s.includes(p) (JavaScript)
Includes(s, p) == Occurrences(s, p) # {}

SetMin(S) == CHOOSE m \in S : \A k \in S : m <= k
SetMax(S) == CHOOSE m \in S : \A k \in S : m >= k

\* s.find(p, from): first position >= from, 0 when absent
Find(s, p, from) ==
    LET I == {i \in Occurrences(s, p) : i >= from}
    IN IF I = {} THEN 0 ELSE SetMin(I)

\* s.replace(old, new): every non-overlapping occurrence, left to right
RECURSIVE Replace(_, _, _)
Replace(s, old, new) ==
    IF Len(s) < Len(old) THEN s
    ELSE IF Take(s, Len(old)) = old THEN new \o Replace(Drop(s, Len(old)), old, new)
    ELSE Take(s, 1) \o Replace(Drop(s, 1), old, new)

LowerChars ==
    {"a", "b", "c", "d", "e", "f", "g", "h", "i", "j", "k", "l", "m", "n",
     "o", "p", "q", "r", "s", "t", "u", "v", "w", "x", "y", "z"}
UpperChars ==
    {"A", "B", "C", "D", "E", "F", "G", "H", "I", "J", "K", "L", "M", "N",
     "O", "P", "Q", "R", "S", "T", "U", "V", "W", "X", "Y", "Z"}
DigitChars == {"0", "1", "2", "3", "4", "5", "6", "7", "8", "9"}

IsLower(c) == c \in LowerChars
IsUpper(c) == c \in UpperChars
IsDigit(c) == c \in DigitChars
\* \w of re (ASCII letters, digits, underscore), also [a-zA-Z0-9_]
WordChars == LowerChars \cup UpperChars \cup DigitChars \cup {"_"}
IsWord(c) == c \in WordChars
IsSpace(c) == c \in {" ", "\t", "\n", "\r"}

LowerOf ==
    ("A" :> "a") @@ ("B" :> "b") @@ ("C" :> "c") @@ ("D" :> "d") @@ ("E" :> "e")
    @@ ("F" :> "f") @@ ("G" :> "g") @@ ("H" :> "h") @@ ("I" :> "i") @@ ("J" :> "j")
    @@ ("K" :> "k") @@ ("L" :> "l") @@ ("M" :> "m") @@ ("N" :> "n") @@ ("O" :> "o")
    @@ ("P" :> "p") @@ ("Q" :> "q") @@ ("R" :> "r") @@ ("S" :> "s") @@ ("T" :> "t")
    @@ ("U" :> "u") @@ ("V" :> "v") @@ ("W" :> "w") @@ ("X" :> "x") @@ ("Y" :> "y")
    @@ ("Z" :> "z")
LowerChar(c) == IF c \in UpperChars THEN LowerOf[c] ELSE c

\* s.lower() / s.toLowerCase()
RECURSIVE Lower(_)
Lower(s) ==
    IF Len(s) <= 1 THEN LowerChar(s)
    ELSE Lower(Take(s, Len(s) \div 2)) \o Lower(Drop(s, Len(s) \div 2))

\* s.strip() / s.trim()
RECURSIVE LStrip(_)
LStrip(s) == IF s # "" /\ IsSpace(Take(s, 1)) THEN LStrip(Drop(s, 1)) ELSE s
RECURSIVE RStrip(_)
RStrip(s) == IF s # "" /\ IsSpace(CharAt(s, Len(s))) THEN RStrip(Take(s, Len(s) - 1)) ELSE s
Strip(s) == RStrip(LStrip(s))

\* s.strip(chars)
RECURSIVE StripChars(_, _)
StripChars(s, chars) ==
    IF s # "" /\ Includes(chars, Take(s, 1)) THEN StripChars(Drop(s, 1), chars)
    ELSE IF s # "" /\ Includes(chars, CharAt(s, Len(s))) THEN StripChars(Take(s, Len(s) - 1), chars)
    ELSE s

\* length of the longest run of characters satisfying a class, from position i
RECURSIVE WordRun(_, _)
WordRun(s, i) == IF i <= Len(s) /\ IsWord(CharAt(s, i)) THEN 1 + WordRun(s, i + 1) ELSE 0
RECURSIVE DigitRun(_, _)
DigitRun(s, i) == IF i <= Len(s) /\ IsDigit(CharAt(s, i)) THEN 1 + DigitRun(s, i + 1) ELSE 0

(***************************************************************************)
(* URL recognition and canonicalization                                    *)
(***************************************************************************)

\* /\w+/status/\d+ matched at position i of s: the position after the match, 0 if none
PostTailEnd(s, i) ==
    LET w == WordRun(s, i + 1)
        j == i + 1 + w
        d == DigitRun(s, j + 8)
    IN IF MatchesAt(s, "/", i) /\ w >= 1 /\ MatchesAt(s, "/status/", j) /\ d >= 1
       THEN j + 8 + d ELSE 0

\* twitter_capture/bot.py handle_twitter_url: the filter applied to one word of the message
word_url(word) ==
    LET w == StripChars(word, "<>()")
    IN IF (Includes(word, "twitter.com") \/ Includes(word, "x.com")) /\ StartsWith(w, "http")
       THEN w ELSE NoMatch

\* media_extractor.py is_twitter_url: re.search of both patterns, IGNORECASE
is_twitter_url(text) ==
    LET low == Lower(text)
    IN \E h \in {"twitter.com", "x.com", "vxtwitter.com", "fixupx.com"} :
          \E i \in Occurrences(low, h) : PostTailEnd(low, i + Len(h)) # 0

\* https?://(?:www\.)?(?:twitter\.com|x\.com|vxtwitter\.com|fixupx\.com)/\w+/status/\d+
\* matched at position i of the lower-cased text: the set of end positions (at most one)
UrlMatchEnds(low, i) ==
    LET afterScheme == IF MatchesAt(low, "https://", i) THEN {i + 8}
                       ELSE IF MatchesAt(low, "http://", i) THEN {i + 7} ELSE {}
        afterWww == afterScheme \cup {j + 4 : j \in {k \in afterScheme : MatchesAt(low, "www.", k)}}
        afterHost == UNION {{j + Len(h) : h \in {g \in {"twitter.com", "x.com", "vxtwitter.com", "fixupx.com"} :
                                                  MatchesAt(low, g, j)}} : j \in afterWww}
    IN {PostTailEnd(low, j) : j \in afterHost} \ {0}

\* media_extractor.py extract_twitter_url
extract_twitter_url(text) ==
    LET low == Lower(text)
        starts == {i \in 1..Len(text) : UrlMatchEnds(low, i) # {}}
    IN IF starts = {} THEN NoMatch
       ELSE LET i == SetMin(starts)
                e == SetMax(UrlMatchEnds(low, i))
                m == SubSeq(text, i, e - 1)
            IN Replace(Replace(m, "twitter.com", "x.com"), "vxtwitter.com", "fixupx.com")

\* media_extractor.py handle_message: what reaches extract_media_from_tweet
message_url(text) == IF is_twitter_url(text) THEN extract_twitter_url(text) ELSE NoMatch

\* twitter_capture/extractor.py extract_tweet_data (and src/bot.py): fx_url
fx_url_of(u) == Replace(Replace(u, "twitter.com", "fixupx.com"), "x.com", "fixupx.com")

\* media_extractor.py extract_media_from_tweet: fixupx_url
fixupx_url_of(tweet_url) ==
    Replace(Replace(Replace(tweet_url, "x.com", "fixupx.com"),
                    "twitter.com", "fixupx.com"),
            "vxtwitter.com", "fixupx.com")

Recognize(variant, text) == IF variant = "capture" THEN word_url(text) ELSE message_url(text)
Canonicalize(variant, u) == IF variant = "capture" THEN fx_url_of(u) ELSE fixupx_url_of(u)

\* ---- the image loops of the Playwright-only variants ----
MaxRes == "name=4096x4096"

IsIdChar(c) == c \in WordChars \cup {"-"}
RECURSIVE IdRun(_, _)
IdRun(s, i) == IF i <= Len(s) /\ IsIdChar(CharAt(s, i)) THEN 1 + IdRun(s, i + 1) ELSE 0

\* tweet_video(?:_thumb)?\/([a-zA-Z0-9_-]+)(?:\.jpg|\.mp4|\.gif)? matched at position i:
\* the position of the "/" before the captured id, 0 if no match starts at i
GifSlashAt(s, i) ==
    IF ~MatchesAt(s, "tweet_video", i) THEN 0
    ELSE IF MatchesAt(s, "_thumb/", i + 11) /\ IdRun(s, i + 18) >= 1 THEN i + 17
    ELSE IF MatchesAt(s, "/", i + 11) /\ IdRun(s, i + 12) >= 1 THEN i + 11
    ELSE 0

\* the id captured by the first match of the GIF pattern in src, NoMatch if none
gif_id(src) ==
    LET starts == {i \in Occurrences(src, "tweet_video") : GifSlashAt(src, i) # 0}
    IN IF starts = {} THEN NoMatch
       ELSE LET j == GifSlashAt(src, SetMin(starts))
            IN SubSeq(src, j + 1, j + IdRun(src, j + 1))

\* the direct video URL of a GIF id
mp4_url(video_id) == "https://video.twimg.com/tweet_video/" \o video_id \o ".mp4"

\* src.split("?")[0]
BeforeQuery(src) == IF Includes(src, "?") THEN Take(src, Find(src, "?", 1) - 1) ELSE src

\* original_url without the split: the size parameter is appended to the whole src
original_url_nosplit(src) == src \o "?" \o MaxRes

\* media_extractor.py extract_media_from_tweet: original_url
original_url(src) == BeforeQuery(src) \o "?" \o MaxRes

\* media_bot.py extract_media_from_tweet: full_size
full_size(src) ==
    LET r == Replace(Replace(src, "&name=small", "&" \o MaxRes), "&name=medium", "&" \o MaxRes)
    IN IF ~Includes(r, "&name=") THEN r \o "&" \o MaxRes ELSE r

\* media_extractor.py extract_media_from_tweet: one <img src*='media'> of the image loop
media_extractor_img(src) ==
    IF ~(Includes(src, "media") /\ src # "" /\ StartsWith(src, "http")) THEN NoItem
    ELSE IF Includes(src, "video_thumb") THEN NoItem
    ELSE Item("photo", original_url(src))

\* media_bot.py extract_media_from_tweet: one <img> of the image loop
media_bot_img(src) ==
    IF src = "" THEN NoItem
    ELSE IF gif_id(src) # NoMatch THEN Item("video", mp4_url(gif_id(src)))
    ELSE IF Includes(src, "profile_images") THEN NoItem
    ELSE IF Includes(src, "/emoji/") THEN NoItem
    ELSE IF Includes(src, "abs-0.twimg.com") /\ ~Includes(src, "emoji") THEN NoItem
    ELSE IF Includes(src, "amplify_video_thumb") \/ Includes(src, "video_thumb") THEN NoItem
    ELSE IF Includes(src, "_normal.") THEN NoItem
    ELSE IF Includes(src, "pbs.twimg.com/media") THEN Item("photo", full_size(src))
    ELSE IF Includes(src, "pbs.twimg.com") /\ ~Includes(src, "tweet_video") THEN Item("photo", src)
    ELSE NoItem

ImgItem(variant, src) ==
    IF variant = "media_extractor" THEN media_extractor_img(src) ELSE media_bot_img(src)

\* ---- inputs of SpecPhoto ----
PhotoBases == {"https://pbs.twimg.com/media/Fa1.jpg", "https://pbs.twimg.com/media/Gb2",
               "https://pbs.twimg.com/media/Hc3.png"}
PhotoQueries == {"", "?format=jpg", "?format=jpg&name=small", "?format=jpg&name=medium",
                 "?format=jpg&name=large", "?format=jpg&name=4096x4096", "?name=small",
                 "?name=4096x4096", "?format=jpg&name=small&name=medium", "?name=orig&name=small"}
OtherImgSrcs == {"https://pbs.twimg.com/profile_images/9/me_normal.jpg",
                 "https://pbs.twimg.com/tweet_video_thumb/XYZ123.jpg",
                 "https://pbs.twimg.com/amplify_video_thumb/77/img/t.jpg",
                 "https://abs-0.twimg.com/emoji/v2/svg/1f600.svg",
                 "https://pbs.twimg.com/card_img/55/c?format=jpg&name=small",
                 "/media/relative.jpg"}
ImgSrcs == {b \o q : b \in PhotoBases, q \in PhotoQueries} \cup OtherImgSrcs
PhotoVariants == {"media_extractor", "media_bot"}

InitPhoto ==
    /\ CanonIdle /\ PipeIdle /\ BotIdle /\ ConcIdle /\ AuthorIdle /\ LoopIdle
    /\ ppc = "src"
    /\ pVariant \in PhotoVariants
    /\ pSrc \in ImgSrcs
    /\ pItem = NoItem /\ pAgain = NoItem

\* the image loop emits a media item for the element
EmitImg ==
    /\ PhotoOnly
    /\ ppc = "src"
    /\ ImgItem(pVariant, pSrc) # NoItem
    /\ pItem' = ImgItem(pVariant, pSrc)
    /\ ppc' = "item"
    /\ UNCHANGED <<pVariant, pSrc, pAgain>>

\* the image loop skips the element (continue)
SkipImg ==
    /\ PhotoOnly
    /\ ppc = "src"
    /\ ImgItem(pVariant, pSrc) = NoItem
    /\ ppc' = "skipped"
    /\ UNCHANGED <<pVariant, pSrc, pItem, pAgain>>

\* the delivered URL is met again as the src of an image
EmitAgain ==
    /\ PhotoOnly
    /\ ppc = "item"
    /\ pAgain' = ImgItem(pVariant, pItem.url)
    /\ ppc' = "again"
    /\ UNCHANGED <<pVariant, pSrc, pItem>>

NextPhoto == EmitImg \/ SkipImg \/ EmitAgain

SpecPhoto == InitPhoto /\ [][NextPhoto]_vars

\* ---- inputs of SpecCanon ----
SourceHosts == {"twitter.com", "x.com", "www.twitter.com", "www.x.com"}
MirrorHosts == {"vxtwitter.com", "fixupx.com"}
PostPaths == {"/alice/status/42", "/bob_1/status/7", "/alice/status/42?s=20",
              "/max/status/99?ref=x.com", "/Eve/status/1234"}
PostTexts == {"https://" \o h \o p : h \in SourceHosts \cup MirrorHosts, p \in PostPaths}
WrappedTexts == {"<https://x.com/alice/status/42>", "(https://twitter.com/alice/status/42)"}
OtherTexts == {"https://x.com/home", "https://netflix.com/alice/status/42",
               "https://example.org/alice/status/42", "x.com/alice/status/42", "hello"}
Texts == PostTexts \cup WrappedTexts \cup OtherTexts
Variants == {"capture", "media"}

InitCanon ==
    /\ PhotoIdle /\ PipeIdle /\ BotIdle /\ ConcIdle /\ AuthorIdle /\ LoopIdle
    /\ cpc = "input"
    /\ cVariant \in Variants
    /\ cText \in Texts
    /\ cUrl = NoMatch /\ cCanon = "" /\ cCanon2 = ""

\* the caller picks the URL out of the message text
RecognizeUrl ==
    /\ CanonOnly
    /\ cpc = "input"
    /\ Recognize(cVariant, cText) # NoMatch
    /\ cUrl' = Recognize(cVariant, cText)
    /\ cpc' = "url"
    /\ UNCHANGED <<cVariant, cText, cCanon, cCanon2>>

\* no URL recognised: the handler returns without starting an extraction
RejectText ==
    /\ CanonOnly
    /\ cpc = "input"
    /\ Recognize(cVariant, cText) = NoMatch
    /\ cpc' = "nomatch"
    /\ UNCHANGED <<cVariant, cText, cUrl, cCanon, cCanon2>>

\* the extractor rewrites the host of the URL it was given
CanonicalizeUrl ==
    /\ CanonOnly
    /\ cpc = "url"
    /\ cCanon' = Canonicalize(cVariant, cUrl)
    /\ cpc' = "once"
    /\ UNCHANGED <<cVariant, cText, cUrl, cCanon2>>

\* the canonical URL is handed to the extractor again
CanonicalizeAgain ==
    /\ CanonOnly
    /\ cpc = "once"
    /\ cCanon2' = Canonicalize(cVariant, cCanon)
    /\ cpc' = "twice"
    /\ UNCHANGED <<cVariant, cText, cUrl, cCanon>>

NextCanon == RecognizeUrl \/ RejectText \/ CanonicalizeUrl \/ CanonicalizeAgain

SpecCanon == InitCanon /\ [][NextCanon]_vars

(***************************************************************************)
(* twitter_capture/extractor.py: the static meta-tag parser                *)
(***************************************************************************)
IsQuote(c) == c = "\"" \/ c = "'"

RECURSIVE NonQuoteRun(_, _)
NonQuoteRun(s, i) == IF i <= Len(s) /\ ~IsQuote(CharAt(s, i)) THEN 1 + NonQuoteRun(s, i + 1) ELSE 0

\* [^>]+ can cover exactly the positions lo..hi of s
NoGt(s, lo, hi) == lo <= hi /\ \A k \in lo..hi : CharAt(s, k) # ">"

\* key=["\']val["\'] matched at position a
KeyAt(s, a, key, val) ==
    /\ MatchesAt(s, key \o "=", a)
    /\ IsQuote(CharAt(s, a + Len(key) + 1))
    /\ MatchesAt(s, val, a + Len(key) + 2)
    /\ IsQuote(CharAt(s, a + Len(key) + 2 + Len(val)))
KeyLen(key, val) == Len(key) + Len(val) + 3

\* content=["\']([^"\']+)["\'] matched at position c
ContentAt(s, c) ==
    /\ MatchesAt(s, "content=", c)
    /\ IsQuote(CharAt(s, c + 8))
    /\ NonQuoteRun(s, c + 9) >= 1
    /\ IsQuote(CharAt(s, c + 9 + NonQuoteRun(s, c + 9)))
ContentValue(s, c) == SubSeq(s, c + 9, c + 8 + NonQuoteRun(s, c + 9))
ContentEnd(s, c) == c + 10 + NonQuoteRun(s, c + 9)

NoReMatch == [ok |-> FALSE, group |-> "", end |-> 0]

\* <meta[^>]+KEY=["\']VAL["\'][^>]+content=["\']([^"\']+)["\'] matched from position i.
\* Both [^>]+ are greedy: the content attribute taken is the last one that some
\* KEY attribute precedes inside the tag.
KeyThenContent(s, i, key, val) ==
    LET keys == {a \in Occurrences(s, key \o "=") : a >= i + 6 /\ KeyAt(s, a, key, val)}
        cs == {c \in Occurrences(s, "content=") :
                 /\ ContentAt(s, c)
                 /\ NoGt(s, i + 5, c - 1)
                 /\ \E a \in keys : a + KeyLen(key, val) + 1 <= c}
    IN IF ~MatchesAt(s, "<meta", i) \/ cs = {} THEN NoReMatch
       ELSE [ok |-> TRUE, group |-> ContentValue(s, SetMax(cs)), end |-> ContentEnd(s, SetMax(cs))]

\* <meta[^>]+content=["\']([^"\']+)["\'][^>]+KEY=["\']VAL["\'] matched from position i
ContentThenKey(s, i, key, val) ==
    LET keys == {a \in Occurrences(s, key \o "=") : KeyAt(s, a, key, val)}
        After(c) == {a \in keys : a >= ContentEnd(s, c) + 1 /\ NoGt(s, ContentEnd(s, c), a - 1)}
        cs == {c \in Occurrences(s, "content=") :
                 /\ c >= i + 6
                 /\ ContentAt(s, c)
                 /\ NoGt(s, i + 5, c - 1)
                 /\ After(c) # {}}
    IN IF ~MatchesAt(s, "<meta", i) \/ cs = {} THEN NoReMatch
       ELSE [ok |-> TRUE, group |-> ContentValue(s, SetMax(cs)),
             end |-> SetMax(After(SetMax(cs))) + KeyLen(key, val)]

MetaMatch(s, i, order, key, val) ==
    IF order = "key_first" THEN KeyThenContent(s, i, key, val) ELSE ContentThenKey(s, i, key, val)

\* re.findall(pattern, html): the groups of the successive matches from position pos
RECURSIVE FindAllMeta(_, _, _, _, _)
FindAllMeta(s, pos, order, key, val) ==
    LET starts == {i \in Occurrences(s, "<meta") : i >= pos /\ MetaMatch(s, i, order, key, val).ok}
    IN IF starts = {} THEN <<>>
       ELSE LET m == MetaMatch(s, SetMin(starts), order, key, val)
            IN <<m.group>> \o FindAllMeta(s, m.end, order, key, val)

\* re.search(pattern, html): the group of the first match, "" when there is none
\* (a match never captures the empty string)
SearchMeta(s, order, key, val) ==
    LET all == FindAllMeta(s, 1, order, key, val)
    IN IF all = <<>> THEN "" ELSE all[1]

Range(seq) == {seq[k] : k \in 1..Len(seq)}

RECURSIVE AppendNew(_, _)

\* the loops without their 'not in image_urls' test
AppendAll(acc, matches) == acc \o SelectSeq(matches, LAMBDA m : m # "")

\* for match in matches: if match and match not in image_urls: image_urls.append(match)
AppendNew(acc, matches) ==
    IF matches = <<>> THEN acc
    ELSE AppendNew(IF Head(matches) # "" /\ Head(matches) \notin Range(acc)
                   THEN Append(acc, Head(matches)) ELSE acc,
                   Tail(matches))

\* the four image loops of extract_from_meta_tags
image_urls(h) ==
    AppendNew(AppendNew(AppendNew(AppendNew(<<>>,
        FindAllMeta(h, 1, "key_first", "property", "og:image")),
        FindAllMeta(h, 1, "content_first", "property", "og:image")),
        FindAllMeta(h, 1, "key_first", "name", "twitter:image")),
        FindAllMeta(h, 1, "content_first", "name", "twitter:image"))

\* re.search(r'\((@[a-zA-Z0-9_]+)\)', title): the group, "" when there is no match
title_handle(title) ==
    LET starts == {i \in Occurrences(title, "(@") :
                     WordRun(title, i + 2) >= 1 /\ MatchesAt(title, ")", i + 2 + WordRun(title, i + 2))}
    IN IF starts = {} THEN ""
       ELSE SubSeq(title, SetMin(starts) + 1, SetMin(starts) + 1 + WordRun(title, SetMin(starts) + 2))

\* re.search(r'/([a-zA-Z0-9_]+)/status/', url): the group, "" when there is no match
url_handle(u) ==
    LET starts == {i \in Occurrences(u, "/") :
                     WordRun(u, i + 1) >= 1 /\ MatchesAt(u, "/status/", i + 1 + WordRun(u, i + 1))}
    IN IF starts = {} THEN ""
       ELSE SubSeq(u, SetMin(starts) + 1, SetMin(starts) + WordRun(u, SetMin(starts) + 1))

\* the name and handle for an og:title (lines 43-57)
title_author(title) ==
    IF title = "" THEN [username |-> "Unknown", handle |-> "@unknown"]
    ELSE IF title_handle(title) # ""
         THEN [username |-> Strip(Replace(title, title_handle(title), "")), handle |-> title_handle(title)]
         ELSE [username |-> title, handle |-> "@unknown"]

\* the fallback to the handle of the URL (lines 59-64)
url_fallback(author, u) ==
    IF author.handle = "@unknown" /\ url_handle(u) # ""
    THEN [username |-> url_handle(u), handle |-> "@" \o url_handle(u)]
    ELSE author

extract_from_meta_tags(h, u) ==
    LET imgs == image_urls(h)
        author == url_fallback(title_author(SearchMeta(h, "key_first", "property", "og:title")), u)
        text == SearchMeta(h, "key_first", "property", "og:description")
    IN IF imgs # <<>>
       THEN TweetData(author.username, author.handle, text, imgs, <<>>, "Unknown")
       ELSE None

(***************************************************************************)
(* twitter_capture/extractor.py: the rendered page                         *)
(***************************************************************************)
\* a <meta> element of the rendered document ("" is an absent attribute)
Meta(prop, name, content) == [property |-> prop, name |-> name, content |-> content]

\* an element of the rendered article, in document order; a <video> carries the
\* src of its <source> children
Elem(tag, src, dataSrc, dataVideoUrl, sources) ==
    [tag |-> tag, src |-> src, data_src |-> dataSrc, data_video_url |-> dataVideoUrl, sources |-> sources]
Img(src) == Elem("img", src, "", "", <<>>)
Video(src, sources) == Elem("video", src, "", "", sources)
Div(dataSrc, dataVideoUrl) == Elem("div", "", dataSrc, dataVideoUrl, <<>>)

RECURSIVE Flatten(_)
Flatten(seqs) == IF seqs = <<>> THEN <<>> ELSE Head(seqs) \o Flatten(Tail(seqs))

\* strs.join('')
RECURSIVE Join(_)
Join(strs) == IF strs = <<>> THEN "" ELSE Head(strs) \o Join(Tail(strs))

\* getMetaContent(property): the content of the first meta[property=...], else of
\* the first meta[name=...]; "" stands for null and for the empty string (both falsy)
getMetaContent(metas, property) ==
    LET byProp == SelectSeq(metas, LAMBDA m : m.property = property)
        byName == SelectSeq(metas, LAMBDA m : m.name = property)
    IN IF byProp # <<>> THEN byProp[1].content
       ELSE IF byName # <<>> THEN byName[1].content
       ELSE ""

\* the allImages loop of the rendered-page evaluation
allImages(metas) ==
    LET sel == SelectSeq(metas, LAMBDA m : m.property = "og:image" \/ m.name = "twitter:image")
    IN AppendNew(<<>>, [k \in 1..Len(sel) |-> sel[k].content])

RECURSIVE SpaceRun(_, _)
SpaceRun(s, i) == IF i <= Len(s) /\ IsSpace(CharAt(s, i)) THEN 1 + SpaceRun(s, i + 1) ELSE 0

\* ogTitle.match(/(.+?)\s+\((@[a-zA-Z0-9_]+)\)/): groups 1 and 2, ok = FALSE for null
og_title_match(t) ==
    LET HandleAt(q) == /\ MatchesAt(t, "(@", q)
                       /\ WordRun(t, q + 2) >= 1
                       /\ MatchesAt(t, ")", q + 2 + WordRun(t, q + 2))
        \* group 1 can end at k: white space follows, then the parenthesised handle
        EndOk(k) == SpaceRun(t, k + 1) >= 1 /\ HandleAt(k + 1 + SpaceRun(t, k + 1))
        NoNewline(i, k) == \A j \in i..k : CharAt(t, j) \notin {"\n", "\r"}
        starts == {i \in 1..Len(t) : \E k \in i..Len(t) : EndOk(k) /\ NoNewline(i, k)}
    IN IF starts = {} THEN [ok |-> FALSE, name |-> "", handle |-> ""]
       ELSE LET i == SetMin(starts)
                k == SetMin({j \in i..Len(t) : EndOk(j) /\ NoNewline(i, j)})
                q == k + 1 + SpaceRun(t, k + 1)
            IN [ok |-> TRUE, name |-> SubSeq(t, i, k),
                handle |-> SubSeq(t, q + 1, q + 1 + WordRun(t, q + 2))]

\* s.replace(old, new) of JavaScript with a string pattern: the first occurrence only
ReplaceFirst(s, old, new) ==
    IF Includes(s, old)
    THEN Take(s, Find(s, old, 1) - 1) \o new \o Drop(s, Find(s, old, 1) + Len(old) - 1)
    ELSE s

\* the first page.evaluate (lines 149-191)
rendered_meta(metas) ==
    LET ogImage == getMetaContent(metas, "og:image")
        twitterImage == getMetaContent(metas, "twitter:image")
        ogTitle == getMetaContent(metas, "og:title")
        ogDescription == getMetaContent(metas, "og:description")
        twitterCreator == getMetaContent(metas, "twitter:creator")
        m == og_title_match(ogTitle)
        author == IF twitterCreator # ""
                  THEN [username |-> ReplaceFirst(twitterCreator, "@", ""), handle |-> twitterCreator]
                  ELSE IF ogTitle # "" /\ m.ok
                       THEN [username |-> Strip(m.name), handle |-> m.handle]
                       ELSE [username |-> "Unknown", handle |-> "@unknown"]
    IN [username |-> author.username, handle |-> author.handle, text |-> ogDescription,
        media_urls |-> allImages(metas), has_meta |-> (ogImage # "" \/ twitterImage # "")]

\* the record returned at lines 196-203
rendered_meta_data(metas) ==
    LET md == rendered_meta(metas)
    IN TweetData(md.username, md.handle, md.text, md.media_urls, <<>>, "Unknown")

\* what new Date().toLocaleString() gives when the article has no <time>
Now == "11/2/2026, 11:07:00 PM"

\* [...new Set(videos)]
Dedup(seq) == AppendNew(<<>>, seq)

FirstOr(seq, default) == IF seq = <<>> THEN default ELSE seq[1]

\* slice(0, 4)
PhotoCap == 4
Slice(seq, n) == IF Len(seq) <= n THEN seq ELSE SubSeq(seq, 1, n)

\* the mediaImgs chain without its slice(0, 4)
mediaImgs_nocap(elems) ==
    LET imgs == SelectSeq(elems, LAMBDA e : e.tag = "img" /\ Includes(e.src, "pbs.twimg.com"))
        srcs == [k \in 1..Len(imgs) |-> imgs[k].src]
    IN SelectSeq(srcs, LAMBDA src :
                    /\ src # ""
                    /\ ~Includes(src, "profile_images")
                    /\ ~Includes(src, "amplify_video_thumb")
                    /\ ~Includes(src, "/emoji/")
                    /\ ~Includes(src, "_normal."))

\* the mediaImgs chain (lines 260-267)
mediaImgs(elems) ==
    LET imgs == SelectSeq(elems, LAMBDA e : e.tag = "img" /\ Includes(e.src, "pbs.twimg.com"))
        srcs == [k \in 1..Len(imgs) |-> imgs[k].src]
        kept == SelectSeq(srcs, LAMBDA src :
                    /\ src # ""
                    /\ ~Includes(src, "profile_images")
                    /\ ~Includes(src, "amplify_video_thumb")
                    /\ ~Includes(src, "/emoji/")
                    /\ ~Includes(src, "_normal."))
    IN Slice(kept, PhotoCap)

\* article.querySelectorAll('*'): every element, a <video> followed by its <source> children
allElements(elems) ==
    Flatten([k \in 1..Len(elems) |->
        <<elems[k]>> \o [j \in 1..Len(elems[k].sources) |->
                            Elem("source", elems[k].sources[j], "", "", <<>>)]])

\* the videos array before the final Set (lines 269-313)
videos(elems) ==
    LET vids == SelectSeq(elems, LAMBDA e : e.tag = "video")
        fromVideo == Flatten([k \in 1..Len(vids) |->
                        SelectSeq(<<vids[k].src>> \o vids[k].sources, LAMBDA u : u # "")])
        all == allElements(elems)
        attrs == Flatten([k \in 1..Len(all) |-> <<all[k].src, all[k].data_src>>])
        fromAttrs == SelectSeq(attrs, LAMBDA u : Includes(u, "video.twimg.com"))
        gifImgs == SelectSeq(elems, LAMBDA e : e.tag = "img" /\ Includes(e.src, "tweet_video"))
        gifIds == [k \in 1..Len(gifImgs) |-> gif_id(gifImgs[k].src)]
        matched == SelectSeq(gifIds, LAMBDA id : id # NoMatch)
        fromGifs == [k \in 1..Len(matched) |-> mp4_url(matched[k])]
        fromData == SelectSeq([k \in 1..Len(all) |-> all[k].data_video_url],
                               LAMBDA u : Includes(u, "video.twimg.com"))
    IN AppendNew(AppendNew(AppendNew(fromVideo, fromAttrs), fromGifs), fromData)

\* the second page.evaluate (lines 215-328); None stands for null
article_data(d) ==
    LET texts == SelectSeq([k \in 1..Len(d.nameSpans) |-> Strip(d.nameSpans[k])], LAMBDA t : t # "")
        username == IF d.hasName
                    THEN FirstOr(SelectSeq(texts, LAMBDA t : ~StartsWith(t, "@")), "Unknown")
                    ELSE "Unknown"
        handle0 == IF d.hasName
                   THEN FirstOr(SelectSeq(texts, LAMBDA t : StartsWith(t, "@")), "@unknown")
                   ELSE "@unknown"
        handle == IF handle0 = "@unknown" /\ url_handle(d.pathname) # ""
                  THEN "@" \o url_handle(d.pathname) ELSE handle0
        text == IF ~d.hasLang THEN ""
                ELSE IF d.langSpans # <<>> THEN Strip(Join(d.langSpans))
                ELSE Strip(d.langText)
        timestamp == IF d.time # "" THEN Strip(d.time) ELSE Now
    IN IF ~d.article THEN None
       ELSE TweetData(username, handle, text, mediaImgs(d.elems), Dedup(videos(d.elems)), timestamp)

(***************************************************************************)
(* twitter_capture/extractor.py: extract_tweet_data                        *)
(***************************************************************************)
\* ---- inputs of Spec ----
Urls == {"https://x.com/alice/status/42", "https://twitter.com/alice/status/42",
         "https://fixupx.com/bob_1/status/7?s=20"}

Img1 == "https://cdn.example/img1.jpg"
Img2 == "https://pbs.twimg.com/media/Fa1.jpg"
JaneTitle == "Jane Doe (@janedoe)"
ErrorPhrase == "Something went wrong"

\* <meta key="val" content="..."> and the same tag with the attributes swapped
MetaTag(key, val, content) == "<meta " \o key \o "=\"" \o val \o "\" content=\"" \o content \o "\">"
MetaTagRev(key, val, content) == "<meta content='" \o content \o "' " \o key \o "='" \o val \o "'>"

Page(head, body) == "<head>" \o head \o "</head><body><p>" \o body \o "</p></body>"

ImageTags == {MetaTag("property", "og:image", Img1),
              MetaTag("property", "og:image", Img1) \o MetaTagRev("name", "twitter:image", Img1),
              MetaTagRev("property", "og:image", Img1) \o MetaTag("name", "twitter:image", Img2)}
TitleTags == {"",
              MetaTag("property", "og:title", JaneTitle) \o MetaTag("property", "og:description", "hello world"),
              MetaTag("property", "og:title", "Jane Doe"),
              MetaTagRev("property", "og:title", JaneTitle) \o MetaTagRev("property", "og:description", "hello world")}
WidthTag == MetaTag("property", "og:image:width", "1200")

Htmls ==
    {Page(i \o t, "ok") : i \in ImageTags, t \in TitleTags}
    \cup {Page(i, ErrorPhrase) : i \in ImageTags \cup {"", WidthTag}}
    \cup {Page(t, "ok") : t \in TitleTags \ {MetaTag("property", "og:title", "Jane Doe")}}
    \cup {Page(MetaTag("property", "og:description", ErrorPhrase), "ok")}

Responses ==
    {[status_code |-> 200, text |-> h] : h \in Htmls}
    \cup {[status_code |-> 404, text |-> "Not Found"], [status_code |-> 302, text |-> ""]}

\* the longest article the browser renders
MaxElems == 6

Pool == <<
    Img("https://pbs.twimg.com/media/Fa1.jpg?format=jpg&name=small"),
    Img("https://pbs.twimg.com/media/Gb2?format=jpg&name=medium"),
    Img("https://pbs.twimg.com/media/Fa1.jpg?format=jpg&name=small"),
    Img("https://pbs.twimg.com/media/Hc3.png"),
    Img("https://pbs.twimg.com/media/Id4.jpg"),
    Img("https://pbs.twimg.com/media/Je5.jpg"),
    Img("https://pbs.twimg.com/profile_images/9/me_normal.jpg"),
    Img("https://pbs.twimg.com/tweet_video_thumb/XYZ123.jpg"),
    Video("https://video.twimg.com/ext_tw_video/1/v1.mp4",
          <<"https://video.twimg.com/ext_tw_video/1/v1.mp4", "https://video.twimg.com/ext_tw_video/1/v2.m3u8">>),
    Div("", "https://video.twimg.com/amplify_video/3/v3.mp4"),
    Div("https://video.twimg.com/tweet_video/XYZ123.mp4", ""),
    Div("https://video.twimg.com/ext_tw_video/4/v4.mp4", ""),
    Img("https://abs-0.twimg.com/emoji/v2/svg/1f600.svg")
>>

\* n consecutive elements of the pool from position i, wrapping around
Window(i, n) == [k \in 1..n |-> Pool[((i + k - 2) % Len(Pool)) + 1]]
ElemLists == {Window(i, n) : i \in 1..Len(Pool), n \in 0..MaxElems}

\* the path of a URL: from the first "/" after the scheme to the query
PathOf(u) ==
    LET rest == Drop(u, Find(u, "/", Find(u, "://", 1) + 3) - 1)
    IN IF Includes(rest, "?") THEN Take(rest, Find(rest, "?", 1) - 1) ELSE rest

RenderedMetas == {
    <<Meta("og:image", "", Img1), Meta("og:title", "", JaneTitle), Meta("og:description", "", "hello world")>>,
    <<Meta("og:image", "", Img1), Meta("og:image", "", Img1), Meta("", "twitter:image", Img2)>>,
    <<Meta("", "twitter:creator", "@janedoe"), Meta("", "twitter:image", Img2), Meta("og:title", "", "Jane Doe")>>}
EmptyFirstMetas == <<Meta("og:image", "", ""), Meta("og:image", "", Img1)>>

Authors == {
    [hasName |-> FALSE, nameSpans |-> <<>>, hasLang |-> FALSE, langSpans |-> <<>>, langText |-> "", time |-> ""],
    [hasName |-> TRUE, nameSpans |-> <<"Jane Doe", " @janedoe ">>, hasLang |-> TRUE,
     langSpans |-> <<"hello ", "world">>, langText |-> "hello world", time |-> " 2h "],
    [hasName |-> TRUE, nameSpans |-> <<"Jane Doe">>, hasLang |-> TRUE, langSpans |-> <<>>,
     langText |-> " plain text ", time |-> ""]}

Article(a, elems) ==
    [NoDom EXCEPT !.article = TRUE, !.hasName = a.hasName, !.nameSpans = a.nameSpans,
                  !.hasLang = a.hasLang, !.langSpans = a.langSpans, !.langText = a.langText,
                  !.time = a.time, !.elems = elems, !.body = "Post"]

\* the documents the browser can render for a URL
Doms(u) ==
    LET At(d) == [d EXCEPT !.pathname = PathOf(u)]
    IN {At([NoDom EXCEPT !.metas = m, !.body = "Post"]) : m \in RenderedMetas}
       \cup {At([NoDom EXCEPT !.body = "Something went wrong. Try reloading."]),
             At([NoDom EXCEPT !.body = "Loading"]),
             At([NoDom EXCEPT !.metas = CHOOSE m \in RenderedMetas : Len(SelectSeq(m, LAMBDA t : t.property = "og:title")) = 0,
                              !.body = "Something went wrong. Try reloading."]),
             At([Article(CHOOSE a \in Authors : ~a.hasName, Window(1, 2)) EXCEPT
                    !.hasLang = TRUE, !.langText = "something went wrong with my order"]),
             At([Article(CHOOSE a \in Authors : ~a.hasName, Window(1, 2)) EXCEPT !.metas = EmptyFirstMetas]),
             At([Article(CHOOSE a \in Authors : ~a.hasName, Window(1, 2)) EXCEPT
                    !.body = "Something went wrong. Try reloading."]),
             \* page.goto followed a redirect: a bare article at a path without /status/
             [Article(CHOOSE a \in Authors : ~a.hasName, <<>>) EXCEPT !.pathname = "/i/flow/login"]}
       \cup {At(Article(a, Window(1, 2))) : a \in Authors}
       \cup {At(Article(CHOOSE a \in Authors : a.time # "", e)) : e \in ElemLists}

\* page.content(): the serialised document
PageContent(d) ==
    LET attr(n, v) == IF v = "" THEN "" ELSE " " \o n \o "=\"" \o v \o "\""
        metaTags == Join([k \in 1..Len(d.metas) |->
                        "<meta" \o attr("property", d.metas[k].property) \o attr("name", d.metas[k].name)
                        \o attr("content", d.metas[k].content) \o ">"])
        all == allElements(d.elems)
        elemTags == Join([k \in 1..Len(all) |->
                        "<" \o all[k].tag \o attr("src", all[k].src) \o attr("data-src", all[k].data_src)
                        \o attr("data-video-url", all[k].data_video_url) \o ">"])
        spans(x) == Join([k \in 1..Len(x) |-> "<span>" \o x[k] \o "</span>"])
        article == IF ~d.article THEN ""
                   ELSE "<article role=\"article\">"
                        \o (IF d.hasName THEN "<div data-testid=\"User-Name\">" \o spans(d.nameSpans) \o "</div>" ELSE "")
                        \o (IF d.hasLang THEN "<div lang=\"en\">"
                                \o (IF d.langSpans # <<>> THEN spans(d.langSpans) ELSE d.langText) \o "</div>" ELSE "")
                        \o (IF d.time # "" THEN "<time>" \o d.time \o "</time>" ELSE "")
                        \o elemTags \o "</article>"
    IN "<html><head>" \o metaTags \o "</head><body><h1>" \o d.body \o "</h1>" \o article \o "</body></html>"

\* the classifier without its og:image condition
is_error_page_phrase_only(h) == Includes(h, "Something went wrong")

\* 'Something went wrong' in html and 'og:image' not in html (line 115)
is_error_page(h) == Includes(h, "Something went wrong") /\ ~Includes(h, "og:image")

\* the test without .lower()
is_rendered_error_cased(content) == Includes(content, "something went wrong")

\* 'something went wrong' in page_content.lower() (line 208)
is_rendered_error(content) == Includes(Lower(content), "something went wrong")

\* an outer handler that lets the exception go on
outer_except_reraise == Raised

\* except Exception as e: ... return None (lines 346-348)
outer_except == None

\* an inner except block that reports a source error
inner_except_source_error == TwitterError

\* the return None that ends the inner except block (line 344)
inner_except == None

\* a caller that looks at the error only when the result has no media
reply_for_media_first(tweet_data) ==
    IF tweet_data = None THEN "extract_failed"
    ELSE IF tweet_data.error = "" \/ tweet_data.media_urls # <<>> THEN "content"
    ELSE IF tweet_data.error = "sensitive_content" THEN "sensitive_content"
    ELSE IF tweet_data.error = "twitter_error" THEN "twitter_error"
    ELSE "other_error"

\* twitter_capture/bot.py handle_twitter_url lines 127-165: which reply the caller
\* sends for the value extract_tweet_data returned ("content": the caption and media)
reply_for(tweet_data) ==
    IF tweet_data = None THEN "extract_failed"
    ELSE IF tweet_data.error = "" THEN "content"
    ELSE IF tweet_data.error = "sensitive_content" THEN "sensitive_content"
    ELSE IF tweet_data.error = "twitter_error" THEN "twitter_error"
    ELSE "other_error"

\* if tweet_data: return tweet_data / return None (lines 333-338)
article_return(tweet_data) == IF tweet_data # None THEN tweet_data ELSE None

Init ==
    /\ CanonIdle /\ PhotoIdle /\ BotIdle /\ ConcIdle /\ AuthorIdle /\ LoopIdle
    /\ pc = "start"
    /\ url \in Urls
    /\ fx_url = "" /\ response = NoResponse /\ html = "" /\ dom = NoDom
    /\ ret = Pending /\ handling = FALSE
    /\ playwright = "none" /\ browser = "none"
    /\ result = Pending /\ via = "" /\ trace = <<>>

\* return value (or the end of an except block) leaves the function
Return(value, branch) == pc' = "done" /\ result' = value /\ via' = branch

\* line 99
Canonicalize_url ==
    /\ PipeOnly
    /\ pc = "start"
    /\ fx_url' = fx_url_of(url)
    /\ pc' = "get"
    /\ UNCHANGED <<url, response, html, dom, ret, handling, playwright, browser, result, via, trace>>

\* lines 105-106: the GET answers
FastGet ==
    /\ PipeOnly
    /\ pc = "get"
    /\ \E r \in Responses : response' = r
    /\ pc' = "status"
    /\ trace' = Append(trace, "get")
    /\ UNCHANGED <<url, fx_url, html, dom, ret, handling, playwright, browser, result, via>>

\* lines 105-106: the GET raises (connect error, timeout); the outer except returns
FastGetRaises ==
    /\ PipeOnly
    /\ pc = "get"
    /\ trace' = Append(trace, "get")
    /\ Return(outer_except, "transport_error")
    /\ UNCHANGED <<url, fx_url, response, html, dom, ret, handling, playwright, browser>>

\* a status test that lets every status below 400 through
status_ok_lenient(r) == r.status_code < 400

\* response.status_code != 200 (line 108), negated
status_ok(r) == r.status_code = 200

\* where a retrying extractor would go on a bad status: back to the GET
on_bad_status_retry == "get"

\* return None (line 110) ends the call
on_bad_status == "done"

\* lines 108-110
CheckStatus ==
    /\ PipeOnly
    /\ pc = "status"
    /\ IF ~status_ok(response)
       THEN pc' = on_bad_status /\ result' = None /\ via' = "http_status"
       ELSE pc' = "classify" /\ UNCHANGED <<result, via>>
    /\ UNCHANGED <<url, fx_url, response, html, dom, ret, handling, playwright, browser, trace>>

\* lines 112-117
ErrorClassify ==
    /\ PipeOnly
    /\ pc = "classify"
    /\ html' = response.text
    /\ trace' = Append(trace, "classify")
    /\ IF is_error_page(response.text)
       THEN Return(TwitterError, "source_error")
       ELSE pc' = "parse" /\ UNCHANGED <<result, via>>
    /\ UNCHANGED <<url, fx_url, response, dom, ret, handling, playwright, browser>>

\* line 122: if meta_data and meta_data.get('media_urls')
fast_sufficient(meta_data) == meta_data # None /\ meta_data.media_urls # <<>>

\* lines 120-127
ParseMeta ==
    /\ PipeOnly
    /\ pc = "parse"
    /\ trace' = Append(trace, "parse")
    /\ LET meta_data == extract_from_meta_tags(html, fx_url)
       IN IF fast_sufficient(meta_data)
          THEN Return(meta_data, "fast_meta")
          ELSE pc' = "pw_start" /\ UNCHANGED <<result, via>>
    /\ UNCHANGED <<url, fx_url, response, html, dom, ret, handling, playwright, browser>>

\* line 132: async_playwright().start(); an exception goes to the outer except
StartPlaywright ==
    /\ PipeOnly
    /\ pc = "pw_start"
    /\ trace' = Append(trace, "start")
    /\ \E ok \in BOOLEAN :
          IF ok THEN playwright' = "started" /\ pc' = "launch" /\ UNCHANGED <<result, via>>
          ELSE Return(outer_except, "launch_error") /\ UNCHANGED playwright
    /\ UNCHANGED <<url, fx_url, response, html, dom, ret, handling, browser>>

\* lines 133-136: chromium.launch
LaunchBrowser ==
    /\ PipeOnly
    /\ pc = "launch"
    /\ trace' = Append(trace, "launch")
    /\ \E ok \in BOOLEAN :
          IF ok THEN browser' = "open" /\ pc' = "context" /\ UNCHANGED <<result, via>>
          ELSE Return(outer_except, "launch_error") /\ UNCHANGED browser
    /\ UNCHANGED <<url, fx_url, response, html, dom, ret, handling, playwright>>

\* lines 138-143: new_context and new_page, before the inner try block: an
\* exception goes to the outer except, which returns without closing anything
NewPage ==
    /\ PipeOnly
    /\ pc = "context"
    /\ trace' = Append(trace, "page")
    /\ \E ok \in BOOLEAN :
          IF ok THEN pc' = "goto" /\ UNCHANGED <<result, via>>
          ELSE Return(outer_except, "context_error")
    /\ UNCHANGED <<url, fx_url, response, html, dom, ret, handling, playwright, browser>>

\* an exception inside the try block (line 340): the inner except closes and stops
Caught(branch) ==
    /\ pc' = "h_close" /\ handling' = TRUE /\ via' = branch
    /\ UNCHANGED <<result, ret>>

\* line 146: page.goto loads a document
Goto ==
    /\ PipeOnly
    /\ pc = "goto"
    /\ trace' = Append(trace, "goto")
    /\ \E d \in Doms(fx_url) : dom' = d
    /\ pc' = "eval_meta"
    /\ UNCHANGED <<url, fx_url, response, html, ret, handling, playwright, browser, result, via>>

\* line 146: page.goto raises (navigation error, timeout)
GotoRaises ==
    /\ PipeOnly
    /\ pc = "goto"
    /\ trace' = Append(trace, "goto")
    /\ Caught("goto_error")
    /\ UNCHANGED <<url, fx_url, response, html, dom, playwright, browser>>

\* lines 149-203: the meta tags of the rendered page
EvalMeta ==
    /\ PipeOnly
    /\ pc = "eval_meta"
    /\ trace' = Append(trace, "eval_meta")
    /\ LET meta_data == rendered_meta(dom.metas)
       IN IF meta_data.has_meta /\ meta_data.media_urls # <<>>
          THEN /\ ret' = rendered_meta_data(dom.metas)
               /\ via' = "rendered_meta"
               /\ pc' = "close"
          ELSE pc' = "content" /\ UNCHANGED <<ret, via>>
    /\ UNCHANGED <<url, fx_url, response, html, dom, handling, playwright, browser, result>>

\* a rendered-page check that reports the sensitivity wall
rendered_error_sensitive == [TwitterError EXCEPT !.error = "sensitive_content"]

\* line 211: return {'error': 'twitter_error', 'message': ...}
rendered_error == TwitterError

\* lines 206-211: the error phrase in the rendered page
PageContentCheck ==
    /\ PipeOnly
    /\ pc = "content"
    /\ trace' = Append(trace, "content")
    /\ IF is_rendered_error(PageContent(dom))
       THEN ret' = rendered_error /\ via' = "source_error_rendered" /\ pc' = "close"
       ELSE pc' = "wait" /\ UNCHANGED <<ret, via>>
    /\ UNCHANGED <<url, fx_url, response, html, dom, handling, playwright, browser, result>>

\* line 213: the article is there
WaitArticle ==
    /\ PipeOnly
    /\ pc = "wait"
    /\ dom.article
    /\ trace' = Append(trace, "wait")
    /\ pc' = "article"
    /\ UNCHANGED <<url, fx_url, response, html, dom, ret, handling, playwright, browser, result, via>>

\* line 213: no article within the timeout
WaitTimesOut ==
    /\ PipeOnly
    /\ pc = "wait"
    /\ ~dom.article
    /\ trace' = Append(trace, "wait")
    /\ Caught("article_timeout")
    /\ UNCHANGED <<url, fx_url, response, html, dom, playwright, browser>>

\* the page's own script replaces the article between the wait and the evaluation
ArticleRemoved ==
    /\ PipeOnly
    /\ pc = "article"
    /\ dom.article
    /\ dom' = [dom EXCEPT !.article = FALSE]
    /\ UNCHANGED <<pc, url, fx_url, response, html, ret, handling, playwright, browser, result, via, trace>>

\* lines 215-328: the article evaluation returns
EvalArticle ==
    /\ PipeOnly
    /\ pc = "article"
    /\ trace' = Append(trace, "eval_article")
    /\ ret' = article_return(article_data(dom))
    /\ via' = IF article_data(dom) # None THEN "article" ELSE "empty"
    /\ pc' = "close"
    /\ UNCHANGED <<url, fx_url, response, html, dom, handling, playwright, browser, result>>

\* an evaluation or page.content() raises inside the try block
EvalRaises ==
    /\ PipeOnly
    /\ pc \in {"eval_meta", "content", "article"}
    /\ trace' = Append(trace, IF pc = "article" THEN "eval_article" ELSE pc)
    /\ Caught("eval_error")
    /\ UNCHANGED <<url, fx_url, response, html, dom, playwright, browser>>

\* await browser.close() (lines 194, 209, 330 and 342)
BrowserClose ==
    /\ PipeOnly
    /\ pc \in {"close", "h_close"}
    /\ trace' = Append(trace, "close")
    /\ browser' = "closed"
    /\ pc' = IF pc = "close" THEN "stop" ELSE "h_stop"
    /\ UNCHANGED <<url, fx_url, response, html, dom, ret, handling, playwright, result, via>>

\* browser.close() raises: inside the try block the inner except takes over,
\* inside the inner except the outer except returns
BrowserCloseRaises ==
    /\ PipeOnly
    /\ pc \in {"close", "h_close"}
    /\ trace' = Append(trace, "close")
    /\ IF pc = "close" THEN Caught("close_error")
       ELSE Return(outer_except, via) /\ UNCHANGED <<handling, ret>>
    /\ UNCHANGED <<url, fx_url, response, html, dom, playwright, browser>>

\* await playwright.stop() (lines 195, 210, 331 and 343), then the return
PlaywrightStop ==
    /\ PipeOnly
    /\ pc \in {"stop", "h_stop"}
    /\ trace' = Append(trace, "stop")
    /\ playwright' = "stopped"
    /\ IF pc = "stop" THEN Return(ret, via) ELSE Return(inner_except, via)
    /\ UNCHANGED <<url, fx_url, response, html, dom, ret, handling, browser>>

\* playwright.stop() raises
PlaywrightStopRaises ==
    /\ PipeOnly
    /\ pc \in {"stop", "h_stop"}
    /\ trace' = Append(trace, "stop")
    /\ IF pc = "stop" THEN Caught("close_error")
       ELSE Return(outer_except, via) /\ UNCHANGED <<handling, ret>>
    /\ UNCHANGED <<url, fx_url, response, html, dom, playwright, browser>>

Next ==
    \/ Canonicalize_url \/ FastGet \/ FastGetRaises \/ CheckStatus \/ ErrorClassify \/ ParseMeta
    \/ StartPlaywright \/ LaunchBrowser \/ NewPage
    \/ Goto \/ GotoRaises \/ EvalMeta \/ PageContentCheck
    \/ WaitArticle \/ WaitTimesOut \/ ArticleRemoved \/ EvalArticle \/ EvalRaises
    \/ BrowserClose \/ BrowserCloseRaises \/ PlaywrightStop \/ PlaywrightStopRaises

Spec == Init /\ [][Next]_vars

(***************************************************************************)
(* twitter_capture/bot.py: handle_twitter_url for one URL of the message   *)
(*                                                                         *)
(* The pictographs of the message texts are written as bracketed words.    *)
(***************************************************************************)
TextMsg(tag, body) == [kind |-> "text", tag |-> tag, body |-> body, url |-> "", items |-> <<>>]
MediaMsg(kind, u, caption) == [kind |-> kind, tag |-> "media", body |-> caption, url |-> u, items |-> <<>>]
AlbumMsg(items) == [kind |-> "album", tag |-> "media", body |-> "", url |-> "", items |-> items]

\* InputMediaPhoto / InputMediaVideo
InputMedia(kind, u, caption) == [kind |-> kind, url |-> u, caption |-> caption]

EndsWith(s, p) == Len(s) >= Len(p) /\ SubSeq(s, Len(s) - Len(p) + 1, Len(s)) = p

\* 'video.twimg.com' in media_url or media_url.endswith('.mp4')
is_video(media_url) == Includes(media_url, "video.twimg.com") \/ EndsWith(media_url, ".mp4")

media_kind(media_url) == IF is_video(media_url) THEN "video" ELSE "photo"

\* lines 167-177
caption_of(tweet_data, u) ==
    (IF tweet_data.username # ""
     THEN "[user] " \o tweet_data.username \o " (" \o tweet_data.handle \o ")" ELSE "")
    \o (IF tweet_data.text # "" THEN "\n[text] " \o tweet_data.text ELSE "")
    \o (IF tweet_data.timestamp # "" THEN "\n[time] " \o tweet_data.timestamp ELSE "")
    \o "\n\n[link] " \o u

\* tweet_data.get('message', 'Unknown error')
error_msg(tweet_data) ==
    IF tweet_data.error = "twitter_error"
    THEN "Twitter returned an error. The tweet may be deleted, private, or age-restricted."
    ELSE "Unknown error"

\* the texts of lines 128-135, 144-150, 152-161 and 163
failure_text(tweet_data, u) ==
    LET k == reply_for(tweet_data)
    IN IF k = "extract_failed" THEN "[x] Failed to extract tweet data.\n\nURL: " \o u
       ELSE IF k = "sensitive_content"
            THEN "[!] **Sensitive Content Detected**\n\n" \o error_msg(tweet_data) \o "\n\nURL: " \o u
       ELSE IF k = "twitter_error"
            THEN "[x] **Twitter Error**\n\n" \o error_msg(tweet_data) \o "\n\nURL: " \o u
       ELSE "[x] Error: " \o error_msg(tweet_data) \o "\n\nURL: " \o u

\* tweet_data.get('media_urls', []) + tweet_data.get('video_urls', [])
all_media_of(tweet_data) == tweet_data.media_urls \o tweet_data.video_urls

\* lines 229-247: the album built from the items whose download succeeded; only
\* the item at position 0 of media_urls can carry the caption
media_group(media_urls, ok, caption) ==
    LET kept == SelectSeq([i \in 1..Len(media_urls) |-> i], LAMBDA i : i \in ok)
    IN [k \in 1..Len(kept) |->
          InputMedia(media_kind(media_urls[kept[k]]), media_urls[kept[k]],
                     IF kept[k] = 1 THEN caption ELSE "")]

\* f"{i+1}/{len(media_urls)}\n\n{caption}" (line 263), i counted from 1 here
item_caption(i, n, caption) == ToString(i) \o "/" \o ToString(n) \o "\n\n" \o caption

\* ---- inputs of SpecBot ----
BotUrls == {"https://x.com/alice/status/42"}

\* the longest photo and video lists of a result
MaxPhotos == 3
MaxVideos == 2

Photo(k) == "https://pbs.twimg.com/media/P" \o ToString(k) \o ".jpg"
Clip(k) == "https://video.twimg.com/tweet_video/V" \o ToString(k) \o ".mp4"

DataResults ==
    {TweetData("Jane Doe", "@janedoe", "hello world", [k \in 1..p |-> Photo(k)], [k \in 1..v |-> Clip(k)], "2h") :
        p \in 0..MaxPhotos, v \in 0..MaxVideos}

\* a failure record that also carries the fields of a success
ErrorWithFields ==
    [TweetData("Jane Doe", "@janedoe", "hello world", <<Photo(1)>>, <<Clip(1)>>, "2h")
        EXCEPT !.kind = "error", !.error = "twitter_error"]

BotResults ==
    DataResults
    \cup {None, TwitterError, ErrorWithFields,
          [TwitterError EXCEPT !.error = "sensitive_content"],
          [TwitterError EXCEPT !.error = "rate_limited"]}

InitBot ==
    /\ CanonIdle /\ PhotoIdle /\ PipeIdle /\ ConcIdle /\ AuthorIdle /\ LoopIdle
    /\ bpc = "start"
    /\ bUrl \in BotUrls
    /\ bData = Pending /\ bCaption = "" /\ bMedia = <<>> /\ bOk = {} /\ bGroup = <<>> /\ bIdx = 0
    /\ bSent = <<>> /\ bProcessing = "none" /\ bRaised = <<>>

\* Telegram accepts a message
Sent(msg) == bSent' = Append(bSent, msg) /\ UNCHANGED bRaised

\* a Telegram call raises
Raises(call) == bRaised' = Append(bRaised, call) /\ UNCHANGED bSent

\* update.message.reply_text(body): accepted, or it raises inside the try block
ReplyText(tag, body) ==
    \E ok \in BOOLEAN :
       IF ok THEN Sent(TextMsg(tag, body)) /\ bpc' = "finally"
       ELSE Raises("reply_text") /\ bpc' = "except"

\* line 121, before the try block
SendProcessing ==
    /\ BotOnly
    /\ bpc = "start"
    /\ \E ok \in BOOLEAN :
          IF ok THEN /\ Sent(TextMsg("processing", "[?] Extracting media..."))
                     /\ bProcessing' = "shown" /\ bpc' = "extract"
          ELSE Raises("reply_text") /\ bpc' = "raised" /\ UNCHANGED bProcessing
    /\ UNCHANGED <<bUrl, bData, bCaption, bMedia, bOk, bGroup, bIdx>>

\* line 125
Extract ==
    /\ BotOnly
    /\ bpc = "extract"
    /\ \E tweet_data \in BotResults : bData' = tweet_data
    /\ bpc' = "dispatch"
    /\ UNCHANGED <<bUrl, bCaption, bMedia, bOk, bGroup, bIdx, bSent, bProcessing, bRaised>>

\* lines 127-165: a falsy result or a result with an error
ReplyFailure ==
    /\ BotOnly
    /\ bpc = "dispatch"
    /\ reply_for(bData) # "content"
    /\ ReplyText(reply_for(bData), failure_text(bData, bUrl))
    /\ UNCHANGED <<bUrl, bData, bCaption, bMedia, bOk, bGroup, bIdx, bProcessing>>

\* lines 167-183: no media, the caption is sent as text
SendTextOnly ==
    /\ BotOnly
    /\ bpc = "dispatch"
    /\ reply_for(bData) = "content"
    /\ all_media_of(bData) = <<>>
    /\ bCaption' = caption_of(bData, bUrl)
    /\ ReplyText("caption", caption_of(bData, bUrl))
    /\ UNCHANGED <<bUrl, bData, bMedia, bOk, bGroup, bIdx, bProcessing>>

\* lines 167-186: exactly one media item
StartSingle ==
    /\ BotOnly
    /\ bpc = "dispatch"
    /\ reply_for(bData) = "content"
    /\ Len(all_media_of(bData)) = 1
    /\ bCaption' = caption_of(bData, bUrl)
    /\ bMedia' = all_media_of(bData)
    /\ bpc' = "single"
    /\ UNCHANGED <<bUrl, bData, bOk, bGroup, bIdx, bSent, bProcessing, bRaised>>

\* lines 167-189: several media items, all_media[:4]
StartAlbum ==
    /\ BotOnly
    /\ bpc = "dispatch"
    /\ reply_for(bData) = "content"
    /\ Len(all_media_of(bData)) > 1
    /\ bCaption' = caption_of(bData, bUrl)
    /\ bMedia' = Slice(all_media_of(bData), 4)
    /\ bpc' = "album"
    /\ UNCHANGED <<bUrl, bData, bOk, bGroup, bIdx, bSent, bProcessing, bRaised>>

\* _send_single_media lines 204-208
SingleDownload ==
    /\ BotOnly
    /\ bpc = "single"
    /\ \E ok \in BOOLEAN :
          IF ok THEN bOk' = {1} /\ bpc' = "single_send" /\ UNCHANGED <<bSent, bRaised>>
          ELSE /\ UNCHANGED bOk
               /\ ReplyText("download_failed", "[x] Failed to download media.\n\n" \o bCaption)
    /\ UNCHANGED <<bUrl, bData, bCaption, bMedia, bGroup, bIdx, bProcessing>>

\* _send_single_media lines 213-219: reply_video or reply_photo
SingleSend ==
    /\ BotOnly
    /\ bpc = "single_send"
    /\ \E ok \in BOOLEAN :
          IF ok THEN Sent(MediaMsg(media_kind(bMedia[1]), bMedia[1], bCaption)) /\ bpc' = "finally"
          ELSE Raises("reply_" \o media_kind(bMedia[1])) /\ bpc' = "single_doc"
    /\ UNCHANGED <<bUrl, bData, bCaption, bMedia, bOk, bGroup, bIdx, bProcessing>>

\* _send_single_media lines 220-222: reply_document after a failed send
SingleDocument ==
    /\ BotOnly
    /\ bpc = "single_doc"
    /\ \E ok \in BOOLEAN :
          IF ok THEN Sent(MediaMsg("document", bMedia[1], bCaption)) /\ bpc' = "finally"
          ELSE Raises("reply_document") /\ bpc' = "except"
    /\ UNCHANGED <<bUrl, bData, bCaption, bMedia, bOk, bGroup, bIdx, bProcessing>>

\* _send_media_album lines 229-251: the downloads and the media group
AlbumDownload ==
    /\ BotOnly
    /\ bpc = "album"
    /\ \E ok \in SUBSET (1..Len(bMedia)) :
          /\ bOk' = ok
          /\ bGroup' = media_group(bMedia, ok, bCaption)
          /\ IF ok = {}
             THEN ReplyText("download_failed", "[x] Failed to download any media.\n\n" \o bCaption)
             ELSE bpc' = "group" /\ UNCHANGED <<bSent, bRaised>>
    /\ UNCHANGED <<bUrl, bData, bCaption, bMedia, bIdx, bProcessing>>

\* _send_media_album lines 253-256: reply_media_group
SendGroup ==
    /\ BotOnly
    /\ bpc = "group"
    /\ \E ok \in BOOLEAN :
          IF ok THEN Sent(AlbumMsg(bGroup)) /\ bpc' = "finally" /\ UNCHANGED bIdx
          ELSE Raises("reply_media_group") /\ bpc' = "fallback" /\ bIdx' = 1
    /\ UNCHANGED <<bUrl, bData, bCaption, bMedia, bOk, bGroup, bProcessing>>

\* _send_media_album lines 258-267: one round of the loop of individual sends
FallbackItem ==
    /\ BotOnly
    /\ bpc = "fallback"
    /\ \E downloaded \in BOOLEAN, ok \in BOOLEAN :
          IF downloaded /\ ~ok
          THEN Raises("reply_" \o media_kind(bMedia[bIdx])) /\ bpc' = "except" /\ UNCHANGED bIdx
          ELSE /\ IF downloaded
                  THEN Sent(MediaMsg(media_kind(bMedia[bIdx]), bMedia[bIdx],
                                     item_caption(bIdx, Len(bMedia), bCaption)))
                  ELSE UNCHANGED <<bSent, bRaised>>
               /\ bIdx' = bIdx + 1
               /\ bpc' = IF bIdx = Len(bMedia) THEN "finally" ELSE "fallback"
    /\ UNCHANGED <<bUrl, bData, bCaption, bMedia, bOk, bGroup, bProcessing>>

\* lines 191-193: the handler's except block
HandlerExcept ==
    /\ BotOnly
    /\ bpc = "except"
    /\ \E ok \in BOOLEAN :
          IF ok THEN Sent(TextMsg("error", "[x] Error: " \o bRaised[Len(bRaised)])) /\ bpc' = "finally"
          ELSE Raises("reply_text") /\ bpc' = "finally_raising"
    /\ UNCHANGED <<bUrl, bData, bCaption, bMedia, bOk, bGroup, bIdx, bProcessing>>

\* lines 194-198: processing_msg.delete(), its exception swallowed; then the
\* iteration ends, or the exception of the except block leaves the handler
Finally ==
    /\ BotOnly
    /\ bpc \in {"finally", "finally_raising"}
    /\ \E ok \in BOOLEAN : bProcessing' = IF ok THEN "deleted" ELSE bProcessing
    /\ bpc' = IF bpc = "finally" THEN "done" ELSE "raised"
    /\ UNCHANGED <<bUrl, bData, bCaption, bMedia, bOk, bGroup, bIdx, bSent, bRaised>>

NextBot ==
    \/ SendProcessing \/ Extract \/ ReplyFailure \/ SendTextOnly \/ StartSingle \/ StartAlbum
    \/ SingleDownload \/ SingleSend \/ SingleDocument
    \/ AlbumDownload \/ SendGroup \/ FallbackItem \/ HandlerExcept \/ Finally

SpecBot == InitBot /\ [][NextBot]_vars

(***************************************************************************)
(* Concurrent calls of extract_tweet_data on one event loop                *)
(*                                                                         *)
(* A coroutine runs without interruption between two awaits; the awaits    *)
(* (the GET, the browser start-up, goto, evaluate, content, the wait,      *)
(* close and stop) are the points where another call can run.              *)
(***************************************************************************)
Calls == {1, 2}

\* a frame in which every call finds the locals of call 1
frame_of_shared(i) == 1

\* fx_url, html, page and tweet_data are local variables of the coroutine: every
\* call has a frame of its own
frame_of(i) == i

\* ---- inputs of SpecConc ----
ConcUrls == {"https://x.com/alice/status/42", "https://x.com/bob_1/status/7"}
FxUrls == {fx_url_of(u) : u \in ConcUrls}

ConcResponses ==
    {[status_code |-> 404, text |-> "Not Found"],
     [status_code |-> 200, text |-> Page(MetaTag("property", "og:image", Img1), "ok")],
     [status_code |-> 200, text |-> Page("", "ok")]}

ConcDoms(u) ==
    LET At(d) == [d EXCEPT !.pathname = PathOf(u)]
    IN {At([NoDom EXCEPT !.metas = <<Meta("", "twitter:image", Img2)>>, !.body = "Post"]),
        At([NoDom EXCEPT !.body = "Loading"]),
        At(Article(CHOOSE a \in Authors : ~a.hasName, Window(1, 2)))}

InitConc ==
    /\ CanonIdle /\ PhotoIdle /\ PipeIdle /\ BotIdle /\ AuthorIdle /\ LoopIdle
    /\ kpc = [i \in Calls |-> "start"]
    /\ kUrl \in [Calls -> ConcUrls]
    /\ kReq = [i \in Calls |-> ""]
    /\ kResult = [i \in Calls |-> Pending]
    /\ cellFx = [i \in Calls |-> ""]
    /\ cellHtml = [i \in Calls |-> ""]
    /\ cellPage = [i \in Calls |-> NoDom]
    /\ cellData = [i \in Calls |-> Pending]
    /\ netResp \in [FxUrls -> ConcResponses]
    /\ netDom \in {f \in [FxUrls -> UNION {ConcDoms(u) : u \in FxUrls}] : \A u \in FxUrls : f[u] \in ConcDoms(u)}
    /\ kOverlap = FALSE

\* call i takes a step while another call is between its first and its last step
Overlaps(i) ==
    kOverlap' = (kOverlap \/ \E j \in Calls \ {i} : kpc[j] \notin {"start", "done"})

\* call i returns value
CallReturn(i, value) ==
    /\ kResult' = [kResult EXCEPT ![i] = value]
    /\ kpc' = [kpc EXCEPT ![i] = "done"]

CallGoes(i, to) == kpc' = [kpc EXCEPT ![i] = to] /\ UNCHANGED kResult

\* line 99, then client.get(fx_url) is sent (line 106)
CallStart(i) ==
    /\ ConcOnly
    /\ kpc[i] = "start"
    /\ cellFx' = [cellFx EXCEPT ![frame_of(i)] = fx_url_of(kUrl[i])]
    /\ kReq' = [kReq EXCEPT ![i] = fx_url_of(kUrl[i])]
    /\ CallGoes(i, "get")
    /\ Overlaps(i)
    /\ UNCHANGED <<kUrl, cellHtml, cellPage, cellData, netResp, netDom>>

\* lines 106-127: the response arrives; status test, classifier and parser
CallGet(i) ==
    /\ ConcOnly
    /\ kpc[i] = "get"
    /\ LET r == netResp[kReq[i]]
           meta_data == extract_from_meta_tags(r.text, cellFx[frame_of(i)])
       IN /\ cellHtml' = [cellHtml EXCEPT ![frame_of(i)] = IF status_ok(r) THEN r.text ELSE @]
          /\ IF ~status_ok(r) THEN CallReturn(i, None)
             ELSE IF is_error_page(r.text) THEN CallReturn(i, TwitterError)
             ELSE IF meta_data # None /\ meta_data.media_urls # <<>> THEN CallReturn(i, meta_data)
             ELSE CallGoes(i, "launch")
    /\ Overlaps(i)
    /\ UNCHANGED <<kUrl, kReq, cellFx, cellPage, cellData, netResp, netDom>>

\* lines 132-143: the driver, the browser, the context and the page
CallLaunch(i) ==
    /\ ConcOnly
    /\ kpc[i] = "launch"
    /\ CallGoes(i, "goto")
    /\ Overlaps(i)
    /\ UNCHANGED <<kUrl, kReq, cellFx, cellHtml, cellPage, cellData, netResp, netDom>>

\* line 146: page.goto(fx_url)
CallGoto(i) ==
    /\ ConcOnly
    /\ kpc[i] = "goto"
    /\ cellPage' = [cellPage EXCEPT ![frame_of(i)] = netDom[cellFx[frame_of(i)]]]
    /\ CallGoes(i, "eval_meta")
    /\ Overlaps(i)
    /\ UNCHANGED <<kUrl, kReq, cellFx, cellHtml, cellData, netResp, netDom>>

\* lines 149-203
CallEvalMeta(i) ==
    /\ ConcOnly
    /\ kpc[i] = "eval_meta"
    /\ LET metas == cellPage[frame_of(i)].metas
           meta_data == rendered_meta(metas)
       IN IF meta_data.has_meta /\ meta_data.media_urls # <<>>
          THEN /\ cellData' = [cellData EXCEPT ![frame_of(i)] = rendered_meta_data(metas)]
               /\ CallGoes(i, "close")
          ELSE CallGoes(i, "content") /\ UNCHANGED cellData
    /\ Overlaps(i)
    /\ UNCHANGED <<kUrl, kReq, cellFx, cellHtml, cellPage, netResp, netDom>>

\* lines 206-211
CallContent(i) ==
    /\ ConcOnly
    /\ kpc[i] = "content"
    /\ IF is_rendered_error(PageContent(cellPage[frame_of(i)]))
       THEN /\ cellData' = [cellData EXCEPT ![frame_of(i)] = TwitterError]
            /\ CallGoes(i, "close")
       ELSE CallGoes(i, "wait") /\ UNCHANGED cellData
    /\ Overlaps(i)
    /\ UNCHANGED <<kUrl, kReq, cellFx, cellHtml, cellPage, netResp, netDom>>

\* line 213; a timeout enters the inner except block (lines 340-344)
CallWait(i) ==
    /\ ConcOnly
    /\ kpc[i] = "wait"
    /\ IF cellPage[frame_of(i)].article
       THEN CallGoes(i, "article") /\ UNCHANGED cellData
       ELSE /\ cellData' = [cellData EXCEPT ![frame_of(i)] = inner_except]
            /\ CallGoes(i, "close")
    /\ Overlaps(i)
    /\ UNCHANGED <<kUrl, kReq, cellFx, cellHtml, cellPage, netResp, netDom>>

\* lines 215-328
CallEvalArticle(i) ==
    /\ ConcOnly
    /\ kpc[i] = "article"
    /\ cellData' = [cellData EXCEPT ![frame_of(i)] = article_return(article_data(cellPage[frame_of(i)]))]
    /\ CallGoes(i, "close")
    /\ Overlaps(i)
    /\ UNCHANGED <<kUrl, kReq, cellFx, cellHtml, cellPage, netResp, netDom>>

\* await browser.close()
CallClose(i) ==
    /\ ConcOnly
    /\ kpc[i] = "close"
    /\ CallGoes(i, "stop")
    /\ Overlaps(i)
    /\ UNCHANGED <<kUrl, kReq, cellFx, cellHtml, cellPage, cellData, netResp, netDom>>

\* await playwright.stop(), then the return statement reads the result
CallStop(i) ==
    /\ ConcOnly
    /\ kpc[i] = "stop"
    /\ CallReturn(i, cellData[frame_of(i)])
    /\ Overlaps(i)
    /\ UNCHANGED <<kUrl, kReq, cellFx, cellHtml, cellPage, cellData, netResp, netDom>>

NextConc ==
    \E i \in Calls :
       \/ CallStart(i) \/ CallGet(i) \/ CallLaunch(i) \/ CallGoto(i) \/ CallEvalMeta(i)
       \/ CallContent(i) \/ CallWait(i) \/ CallEvalArticle(i) \/ CallClose(i) \/ CallStop(i)

SpecConc == InitConc /\ [][NextConc]_vars

(***************************************************************************)
(* src/bot.py: the author of the article, three methods in a row           *)
(***************************************************************************)
\* let username = 'Unknown'; let handle = '@unknown' (lines 75-76)
NoAuthor == [username |-> "Unknown", handle |-> "@unknown"]

\* an <a> element of the article
Link(href, text) == [href |-> href, text |-> text]

\* spans.map(s => s.textContent.trim()).filter(t => t.length > 0)
span_texts(spans) == SelectSeq([k \in 1..Len(spans) |-> Strip(spans[k])], LAMBDA t : t # "")

\* Method 1 (lines 78-98): the first text without @ is the name, the first text
\* with @ is the handle
method1(author, hasName, spans) ==
    IF ~hasName THEN author
    ELSE LET texts == span_texts(spans)
         IN [username |-> FirstOr(SelectSeq(texts, LAMBDA t : ~StartsWith(t, "@")), author.username),
             handle |-> FirstOr(SelectSeq(texts, LAMBDA t : StartsWith(t, "@")), author.handle)]

\* a[href^="/"] without hashtag, status and photo links (lines 102-110)
userLinks(links) ==
    SelectSeq(links, LAMBDA a : /\ StartsWith(a.href, "/")
                                /\ ~StartsWith(a.href, "/hashtag/")
                                /\ ~Includes(a.href, "/status/")
                                /\ ~Includes(a.href, "/photo/"))

\* Method 2 (lines 100-135): the texts of the first two profile links
method2(author, links) ==
    IF ~(author.username = "Unknown" \/ author.handle = "@unknown") \/ userLinks(links) = <<>>
    THEN author
    ELSE LET first == userLinks(links)[1]
             displayName == Strip(first.text)
             handleText == IF Len(userLinks(links)) >= 2 THEN Strip(userLinks(links)[2].text) ELSE ""
             named == IF displayName # "" /\ ~StartsWith(displayName, "@")
                      THEN displayName ELSE author.username
             linked == IF StartsWith(handleText, "@") THEN handleText ELSE author.handle
         IN [username |-> named,
             handle |-> IF linked = "@unknown" /\ StartsWith(first.href, "/") /\ ~Includes(first.href, "/")
                        THEN "@" \o Drop(first.href, 1) ELSE linked]

\* Method 3 (lines 137-144): the handle of window.location.pathname
method3(author, pathname) ==
    IF author.handle = "@unknown" /\ url_handle(pathname) # ""
    THEN [author EXCEPT !.handle = "@" \o url_handle(pathname)]
    ELSE author

\* ---- inputs ----
NameSpans == {<<>>, <<" Jane Doe ", "", "@janedoe">>, <<"Jane Doe">>, <<"@janedoe">>}

LinkPool == {Link("/janedoe", " Jane D. "), Link("/janedoe", "@jane_d"), Link("/janedoe", ""),
             Link("/hashtag/tla", "#tla"), Link("/janedoe/status/42", "2h"),
             Link("https://t.co/x", "t.co/x")}

MaxLinks == 2

LinkLists == UNION {[1..n -> LinkPool] : n \in 0..MaxLinks}

Pathnames == {"/alice/status/42", "/i/flow/login"}

InitAuthor ==
    /\ CanonIdle /\ PhotoIdle /\ PipeIdle /\ BotIdle /\ ConcIdle /\ LoopIdle
    /\ apc = "method1"
    /\ aHasName \in BOOLEAN
    /\ aSpans \in (IF aHasName THEN NameSpans ELSE {<<>>})
    /\ aLinks \in LinkLists
    /\ aPath \in Pathnames
    /\ aAuthor = NoAuthor
    /\ aTrail = <<>>

\* username and handle take the value a method leaves
Resolved(author) ==
    /\ aAuthor' = author
    /\ aTrail' = Append(aTrail, author)
    /\ UNCHANGED <<aHasName, aSpans, aLinks, aPath>>

Method1 ==
    /\ AuthorOnly
    /\ apc = "method1" /\ apc' = "method2"
    /\ Resolved(method1(aAuthor, aHasName, aSpans))

Method2 ==
    /\ AuthorOnly
    /\ apc = "method2" /\ apc' = "method3"
    /\ Resolved(method2(aAuthor, aLinks))

Method3 ==
    /\ AuthorOnly
    /\ apc = "method3" /\ apc' = "done"
    /\ Resolved(method3(aAuthor, aPath))

NextAuthor == Method1 \/ Method2 \/ Method3

SpecAuthor == InitAuthor /\ [][NextAuthor]_vars

(***************************************************************************)
(* twitter_capture/bot.py: handle_twitter_url, the loop over the URLs of   *)
(* one message                                                             *)
(***************************************************************************)
\* lines 105-111: the words that name the source, stripped of <>() and
\* starting with http
twitter_urls(words) ==
    LET named == SelectSeq(words, LAMBDA w : Includes(w, "twitter.com") \/ Includes(w, "x.com"))
        stripped == [k \in 1..Len(named) |-> StripChars(named[k], "<>()")]
    IN SelectSeq(stripped, LAMBDA u : StartsWith(u, "http"))

\* a continue that jumps to the next URL past the deletion
on_continue_skip == "loop"

\* lines 136 and 165: continue inside the try block runs the finally block first
on_continue == "finally"

\* ---- inputs ----
Words == {"https://x.com/alice/status/42", "<https://twitter.com/bob_1/status/7>", "see", "x.com/alice"}

MaxWords == 2

Messages == UNION {[1..n -> Words] : n \in 0..MaxWords}

\* what the try block does for a URL: nothing extracted, a typed failure, media to send
Paths == {"nothing", "typed_failure", "media"}

InitLoop ==
    /\ CanonIdle /\ PhotoIdle /\ PipeIdle /\ BotIdle /\ ConcIdle /\ AuthorIdle
    /\ lpc = "parse"
    /\ lWords \in Messages
    /\ lUrls = <<>> /\ lIdx = 0 /\ lPath = "" /\ lCaught = FALSE /\ lPending = FALSE
    /\ lLog = <<>>

Logged(event) == lLog' = Append(lLog, <<event, lIdx>>)

\* lines 103-114
ParseMessage ==
    /\ LoopOnly
    /\ lpc = "parse"
    /\ lUrls' = twitter_urls(lWords)
    /\ lpc' = IF twitter_urls(lWords) = <<>> THEN "returned" ELSE "loop"
    /\ UNCHANGED <<lWords, lIdx, lPath, lCaught, lPending, lLog>>

\* line 117: the next URL of the list, or the end of the handler
NextUrl ==
    /\ LoopOnly
    /\ lpc = "loop"
    /\ IF lIdx < Len(lUrls)
       THEN /\ lIdx' = lIdx + 1
            /\ lLog' = Append(lLog, <<"start", lIdx + 1>>)
            /\ lpc' = "processing"
            /\ lPath' = "" /\ lCaught' = FALSE
       ELSE lpc' = "returned" /\ UNCHANGED <<lIdx, lLog, lPath, lCaught>>
    /\ UNCHANGED <<lWords, lUrls, lPending>>

\* line 121: the processing message, before the try block
ShowProcessing ==
    /\ LoopOnly
    /\ lpc = "processing"
    /\ \E ok \in BOOLEAN :
          IF ok THEN Logged("shown") /\ lpc' = "try"
          ELSE lpc' = "raised" /\ UNCHANGED lLog
    /\ UNCHANGED <<lWords, lUrls, lIdx, lPath, lCaught, lPending>>

\* lines 123-189: the reply of the path taken is accepted or raises
TryBlock ==
    /\ LoopOnly
    /\ lpc = "try"
    /\ \E path \in Paths, ok \in BOOLEAN :
          /\ lPath' = path
          /\ lpc' = IF ~ok THEN "except"
                    ELSE IF path = "media" THEN "finally" ELSE on_continue
    /\ UNCHANGED <<lWords, lUrls, lIdx, lCaught, lPending, lLog>>

\* lines 191-193: the reply of the except block is accepted or raises
ExceptBlock ==
    /\ LoopOnly
    /\ lpc = "except"
    /\ lCaught' = TRUE
    /\ \E ok \in BOOLEAN : lPending' = ~ok
    /\ lpc' = "finally"
    /\ UNCHANGED <<lWords, lUrls, lIdx, lPath, lLog>>

\* lines 194-198: processing_msg.delete() is attempted and its exception
\* swallowed; a pending exception then leaves the handler
FinallyBlock ==
    /\ LoopOnly
    /\ lpc = "finally"
    /\ \E ok \in BOOLEAN : Logged(IF ok THEN "deleted" ELSE "delete_failed")
    /\ lpc' = IF lPending THEN "raised" ELSE "loop"
    /\ UNCHANGED <<lWords, lUrls, lIdx, lPath, lCaught, lPending>>

NextLoop == ParseMessage \/ NextUrl \/ ShowProcessing \/ TryBlock \/ ExceptBlock \/ FinallyBlock

SpecLoop == InitLoop /\ [][NextLoop]_vars

(***************************************************************************)
(* Properties                                                              *)
(***************************************************************************)
\* the part of a URL text from the first "/" after the scheme
RestOf(text) == Drop(text, Find(text, "/", Find(text, "://", 1) + 3) - 1)

\* C1: canonicalization is idempotent: rewriting the host of an already rewritten
\* valid post URL gives the same URL again.
C1_CanonIdempotent ==
    (cpc = "twice" /\ cText \in PostTexts) => cCanon2 = cCanon

\* C2: every recognized domain spelling of a post is rewritten to one and the same
\* canonical URL on the proxy domain fixupx.com.
C2_OneCanonicalUrl ==
    (cpc \in {"once", "twice"} /\ cText \in PostTexts) => cCanon = "https://fixupx.com" \o RestOf(cText)

Returned == pc = "done"

\* C3: for a fast-path page with an og:image U and the og:title "N (@h)" the parser
\* returns the name N without leftover parentheses, the handle @h, U as a photo
\* (the only photo when the page has that one image tag) and no failure.
C3_TitleSplit ==
    (Returned /\ via = "fast_meta" /\ Includes(html, MetaTag("property", "og:title", JaneTitle)))
    => /\ result.kind = "data"
       /\ result.username = "Jane Doe"
       /\ result.handle = "@janedoe"
       /\ Img1 \in Range(result.media_urls)
       /\ Cardinality(Occurrences(html, "og:image")) = 1 => result.media_urls = <<Img1>>

\* C4: on a fast-path body the classifier fires exactly when the body has the error
\* phrase and no og:image marker; the call then ends at once with twitter_error and
\* no media, and neither the meta-tag parser nor the browser has run.
C4_ErrorClassifier ==
    (response.status_code = 200 /\ pc \notin {"start", "get", "status", "classify"})
    => ((Includes(html, ErrorPhrase) /\ ~Includes(html, "og:image"))
        <=> (/\ Returned /\ via = "source_error"
             /\ result = TwitterError
             /\ trace = <<"get", "classify">>
             /\ playwright = "none" /\ browser = "none"))

\* C4 witness: the classifier fired
C4_Witness ==
    /\ Returned /\ via = "source_error" /\ result.error = "twitter_error"
    /\ Includes(html, ErrorPhrase)

\* the URL two media items are compared by: size parameters dropped from a photo
NormalizedUrl(u) == IF Includes(u, "pbs.twimg.com/media") THEN BeforeQuery(u) ELSE u

\* C5: no result carries two media items (media_urls followed by video_urls) with
\* the same normalized URL.
C5_NoDuplicateMedia ==
    (Returned /\ result.kind = "data")
    => LET all == result.media_urls \o result.video_urls
       IN \A i, j \in 1..Len(all) : NormalizedUrl(all[i]) = NormalizedUrl(all[j]) => i = j

\* C6: a GIF thumbnail image of the article gives one Video at the direct mp4 URL
\* and is not also delivered as a Photo.
C6_GifIsVideoOnly ==
    (Returned /\ via = "article" /\ result.kind = "data")
    => \A k \in 1..Len(dom.elems) :
          (dom.elems[k].tag = "img" /\ Includes(dom.elems[k].src, "/tweet_video_thumb/"))
          => /\ Len(SelectSeq(result.video_urls,
                     LAMBDA v : v = "https://video.twimg.com/tweet_video/XYZ123.mp4")) = 1
             /\ dom.elems[k].src \notin Range(result.media_urls)

QualifyingImgs(elems) ==
    LET Qualifies(e) ==
            /\ e.tag = "img" /\ Includes(e.src, "pbs.twimg.com")
            /\ \A x \in {"profile_images", "amplify_video_thumb", "/emoji/", "_normal."} : ~Includes(e.src, x)
        q == SelectSeq(elems, Qualifies)
    IN [k \in 1..Len(q) |-> q[k].src]

\* every video URL the article offers in a src, data-src or data-video-url attribute
OfferedVideos(elems) ==
    LET attrs == UNION {{elems[k].src, elems[k].data_src, elems[k].data_video_url}
                        \cup Range(elems[k].sources) : k \in 1..Len(elems)}
    IN {u \in attrs : Includes(u, "video.twimg.com")}

\* C8: of n qualifying article images exactly the first min(n, 4) are kept as
\* photos, in document order; the video URLs are not capped.
C8_PhotoCap ==
    (Returned /\ via = "article" /\ result.kind = "data")
    => LET q == QualifyingImgs(dom.elems)
           n == Len(q)
       IN /\ Len(result.media_urls) = (IF n < 4 THEN n ELSE 4)
          /\ \A k \in 1..Len(result.media_urls) : result.media_urls[k] = q[k]
          /\ OfferedVideos(dom.elems) \subseteq Range(result.video_urls)

\* C8 witness: an article with five distinct qualifying images, four of them kept
C8_Witness ==
    /\ Returned /\ via = "article"
    /\ Len(QualifyingImgs(dom.elems)) = 5
    /\ Cardinality(Range(QualifyingImgs(dom.elems))) = 5
    /\ Len(result.media_urls) = 4

\* the path segment before /status/ of the rewritten URL
UrlSegment == LET p == PathOf(fx_url) IN SubSeq(p, 2, Find(p, "/status/", 1) - 1)

\* C9: a successful result never keeps the default handle: when neither the title
\* nor the DOM gives a handle, the handle is that of the URL.
C9_HandleFallback ==
    (Returned /\ result.kind = "data")
    => /\ result.handle # "@unknown"
       /\ result.handle \in {"@janedoe", "@" \o UrlSegment}

FailureBranches == {"transport_error", "http_status", "launch_error", "context_error", "goto_error",
                    "article_timeout", "eval_error", "empty", "close_error"}

C11_ResourcesReleased ==
    (Returned /\ browser # "none") => (browser = "closed" /\ playwright = "stopped")

HasSignal(r) ==
    \/ r.username # "Unknown" \/ r.handle # "@unknown"
    \/ r.text # "" \/ r.media_urls # <<>> \/ r.video_urls # <<>>

\* C14: an article that yields some signal but no media is returned as a success,
\* and a result without any signal is never returned as a success record.
C14_NoSignalIsFailure ==
    /\ (Returned /\ via = "article" /\ HasSignal(article_data(dom))) => result.kind = "data"
    /\ (Returned /\ result.kind = "data") => HasSignal(result)

\* tokens without a recognized source domain followed by a /handle/status/ path
NonPostTexts == {"https://x.com/home", "https://netflix.com/alice/status/42",
                 "https://example.org/alice/status/42", "hello"}

\* C16: a token that is not a post URL of a recognized domain yields "no match":
\* no URL is recognised, nothing is rewritten and no extraction is started.
C16_NoMatch ==
    cText \in NonPostTexts => (cpc \in {"input", "nomatch"} /\ cUrl = NoMatch /\ cCanon = "")

\* C17: canonicalization changes only the host: the path and the query of the
\* canonical URL are those of the URL handed to the extractor.
C17_PathAndQueryKept ==
    (cpc \in {"once", "twice"} /\ cText \in PostTexts) => RestOf(cCanon) = RestOf(cUrl)

\* how often an operation was performed in this call
Count(op) == Len(SelectSeq(trace, LAMBDA t : t = op))

\* C20: one call issues at most one fast-path GET and starts at most one render
\* session (one driver start, one launch, one page, one navigation); no
\* extraction step is performed a second time after a failure.
C20_NoRetry ==
    \A op \in {"get", "classify", "parse", "start", "launch", "page", "goto",
                "eval_meta", "content", "wait", "eval_article"} : Count(op) <= 1

\* C20 witness: the navigation failed and the call returned after one GET, one
\* launch and one navigation
C20_Witness ==
    /\ Returned /\ via = "goto_error"
    /\ Count("get") = 1 /\ Count("launch") = 1 /\ Count("goto") = 1

\* the handler has finished with the URL
Handled == bpc \in {"done", "raised"}

\* what the chat received besides the "Extracting media..." notice
Delivered == SelectSeq(bSent, LAMBDA m : m.tag # "processing")

TextFault == \E k \in 1..Len(bRaised) : bRaised[k] = "reply_text"
GroupFault == \E k \in 1..Len(bRaised) : bRaised[k] = "reply_media_group"

\* C18: for a successful result the chat receives the caption as text when there
\* is no media, one media message with the caption when there is one item, and
\* otherwise one album of at most 4 items whose first item, and no other,
\* carries the caption; when the album send fails and the items go out one by
\* one, still only the first of them carries the caption.
C18_Dispatch ==
    (Handled /\ bData # Pending /\ reply_for(bData) = "content")
    => LET caption == caption_of(bData, bUrl)
           n == Len(all_media_of(bData))
           media == SelectSeq(Delivered, LAMBDA m : m.tag = "media")
       IN /\ (n = 0 /\ ~TextFault) => Delivered = <<TextMsg("caption", caption)>>
          /\ (n = 1 /\ bOk = {1} /\ bpc = "done" /\ ~TextFault)
             => /\ Len(Delivered) = 1
                /\ Delivered[1].kind \in {"photo", "video", "document"}
                /\ Delivered[1].url = all_media_of(bData)[1]
                /\ Delivered[1].body = caption
          /\ (n > 1 /\ bOk # {} /\ ~GroupFault)
             => /\ Len(Delivered) = 1 /\ Delivered[1].kind = "album"
                /\ Len(Delivered[1].items) \in 1..4
                /\ Delivered[1].items[1].caption = caption
                /\ \A k \in 2..Len(Delivered[1].items) : Delivered[1].items[k].caption = ""
          /\ (n > 1 /\ GroupFault /\ media # <<>>)
             => /\ Len(media) <= 4
                /\ Includes(media[1].body, caption)
                /\ \A k \in 2..Len(media) : ~Includes(media[k].body, caption)

\* the texts of the success fields of a result
FieldTexts(tweet_data) ==
    ({tweet_data.username, tweet_data.handle, tweet_data.text, tweet_data.timestamp}
     \cup Range(tweet_data.media_urls) \cup Range(tweet_data.video_urls)) \ {""}

\* the result carries a failure: None, or a record whose error is set
CarriesFailure(tweet_data) == tweet_data = None \/ tweet_data.error # ""

\* the kind of failure message a failed result calls for
FailureKind(tweet_data) ==
    IF tweet_data = None THEN "extract_failed"
    ELSE IF tweet_data.error \in {"sensitive_content", "twitter_error"} THEN tweet_data.error
    ELSE "other_error"

\* C19: for a result that carries a failure the chat receives at most one message
\* for that URL, the text for that kind of failure, and exactly one when Telegram
\* accepts the text replies; no message is a photo, video, document or album, no
\* caption is built and no message shows another field of the result.
C19_FailureOnly ==
    (bData # Pending /\ CarriesFailure(bData))
    => /\ \A k \in 1..Len(Delivered) :
             /\ Delivered[k].kind = "text"
             /\ Delivered[k].tag \in {FailureKind(bData), "error"}
             /\ \A f \in FieldTexts(bData) : ~Includes(Delivered[k].body, f)
       /\ Len(SelectSeq(Delivered, LAMBDA m : m.tag = FailureKind(bData))) <= 1
       /\ (Handled /\ ~TextFault) => Len(Delivered) = 1 /\ Delivered[1].tag = FailureKind(bData)
       /\ bCaption = "" /\ bMedia = <<>> /\ bGroup = <<>>

\* C19 witness: a twitter_error result that also carries an author, a text, a
\* photo and a video was answered with the Twitter Error text alone
C19_Witness ==
    /\ Handled /\ bData = ErrorWithFields
    /\ Len(Delivered) = 1 /\ Delivered[1].tag = "twitter_error"
    /\ bProcessing = "deleted"

\* the result of a call for u that runs alone against the same proxy responses
\* and rendered documents
Alone(u) ==
    LET fx == fx_url_of(u)
        r == netResp[fx]
        meta_data == extract_from_meta_tags(r.text, fx)
        d == netDom[fx]
    IN IF r.status_code # 200 THEN None
       ELSE IF is_error_page(r.text) THEN TwitterError
       ELSE IF meta_data # None /\ meta_data.media_urls # <<>> THEN meta_data
       ELSE IF rendered_meta(d.metas).has_meta /\ rendered_meta(d.metas).media_urls # <<>>
            THEN rendered_meta_data(d.metas)
       ELSE IF is_rendered_error(PageContent(d)) THEN TwitterError
       ELSE IF ~d.article THEN None
       ELSE article_data(d)

\* C15: concurrent calls share no mutable state: however their steps interleave,
\* each call returns what it would return when run alone.
C15_Independent ==
    \A i \in Calls : kpc[i] = "done" => kResult[i] = Alone(kUrl[i])

\* C15 witness: two calls for different URLs ran interleaved through the render
\* fallback and returned different results
C15_Witness ==
    /\ \A i \in Calls : kpc[i] = "done" /\ kResult[i].kind = "data" /\ cellPage[i] # NoDom
    /\ kOverlap
    /\ kUrl[1] # kUrl[2] /\ kResult[1] # kResult[2]

IsPrefix(p, t) == Len(t) >= Len(p) /\ SubSeq(t, 1, Len(p)) = p

FastTier == <<"get", "classify", "parse">>

RenderTier == <<"start", "launch", "page", "goto", "eval_meta">>

ArticleTier == <<"content", "wait", "eval_article">>

\* C21: the tiers run in order and a slower tier is entered only when the one
\* before it was insufficient: the browser is started only after the GET returned
\* 200, the classifier did not fire and the parser returned no media; the article
\* is evaluated only after the rendered meta-tag extraction yielded no media, the
\* rendered-page error check did not fire and the wait for the article succeeded.
C21_TiersInOrder ==
    /\ Count("start") > 0 =>
          /\ IsPrefix(FastTier \o <<"start">>, trace)
          /\ response.status_code = 200
          /\ ~is_error_page(response.text)
          /\ LET parsed == extract_from_meta_tags(response.text, fx_url)
             IN parsed = None \/ parsed.media_urls = <<>>
    /\ Count("eval_article") > 0 =>
          /\ IsPrefix(FastTier \o RenderTier \o ArticleTier, trace)
          /\ rendered_meta(dom.metas).media_urls = <<>>
          /\ ~is_rendered_error(PageContent(dom))

\* the image addresses that the image meta tags of a page carry
TagImages(h) ==
    {u \in {Img1, Img2} : Includes(h, "content=\"" \o u \o "\"") \/ Includes(h, "content='" \o u \o "'")}

\* C22: the parser returns None exactly when the page has no og:image or
\* twitter:image address, whether or not a title or description was resolved, and
\* a record otherwise; the record lists each address of the tags once.
C22_ParserResult ==
    Count("parse") > 0 =>
        LET r == extract_from_meta_tags(html, fx_url)
        IN /\ (r = None) <=> (TagImages(html) = {})
           /\ r # None =>
                 /\ r.kind = "data"
                 /\ Range(r.media_urls) = TagImages(html)
                 /\ Len(r.media_urls) = Cardinality(TagImages(html))
           /\ (Returned /\ via = "fast_meta") => result = r
           /\ r = None => via # "fast_meta"

\* C22 witness: a page with two tags for one address and no description was
\* parsed into a record with that address once
C22_Witness ==
    /\ Returned /\ via = "fast_meta"
    /\ Cardinality(Occurrences(html, Img1)) = 2
    /\ result.media_urls = <<Img1>>
    /\ result.text = ""

\* the fields of the pages that can be written in either attribute order
FieldTags ==
    <<<<"property", "og:image", Img1>>, <<"name", "twitter:image", Img1>>,
      <<"property", "og:title", JaneTitle>>, <<"property", "og:description", "hello world">>>>

RECURSIVE KeyFirstFrom(_, _)
KeyFirstFrom(h, k) ==
    IF k > Len(FieldTags) THEN h
    ELSE KeyFirstFrom(ReplaceFirst(h, MetaTagRev(FieldTags[k][1], FieldTags[k][2], FieldTags[k][3]),
                                      MetaTag(FieldTags[k][1], FieldTags[k][2], FieldTags[k][3])), k + 1)

\* the same page with every tag written as property=... content=... (a page has
\* each tag once)
KeyFirst(h) == KeyFirstFrom(h, 1)

\* C23: the parser is tolerant of attribute order for every field: a page whose
\* og:image, twitter:image, og:title or og:description tags are written as
\* content=... property=... gives the same result as the page with these tags
\* written as property=... content=...
C23_AttributeOrder ==
    (Returned /\ via = "fast_meta") => result = extract_from_meta_tags(KeyFirst(html), fx_url)

\* the page has an og:title without a parenthesized handle
PlainTitle(h) == Includes(h, MetaTag("property", "og:title", "Jane Doe"))

\* C24: when og:title has no parenthesized handle the whole title is the display
\* name and stays it: the URL fallback sets the handle from the path segment
\* before /status/ and leaves a name resolved from the title alone.
C24_TitleNameKept ==
    (Returned /\ via = "fast_meta" /\ PlainTitle(html)) =>
        /\ result.handle = "@" \o UrlSegment
        /\ result.username = "Jane Doe"

\* the serialised rendered page, in lowercase, contains the error phrase
RenderedPhrase(d) == Includes(Lower(PageContent(d)), "something went wrong")

\* the test of line 193 on the rendered meta tags
RenderedMediaFound(d) == rendered_meta(d.metas).has_meta /\ rendered_meta(d.metas).media_urls # <<>>

\* C25: whenever the rendered page contains the error phrase (compared in
\* lowercase), the call never returns a success record and, unless an exception
\* interrupts it, ends with the typed failure twitter_error.
C25_SourceError ==
    (Returned /\ dom # NoDom /\ RenderedPhrase(dom)) =>
        /\ result.kind # "data"
        /\ ~handling => result = TwitterError

\* C25 amended: the same, for rendered pages on which the rendered meta-tag
\* extraction found no media; an exception of page.content(), close() or stop()
\* turns the outcome into None.
C25_Amended ==
    (Returned /\ dom # NoDom /\ RenderedPhrase(dom) /\ ~RenderedMediaFound(dom)) =>
        /\ result.kind # "data"
        /\ ~handling => result = TwitterError
        /\ handling => result = None

\* C25 witness: a rendered page without image meta tags whose body has the phrase
\* with a capital letter ended in twitter_error
C25_Witness ==
    /\ Returned /\ via = "source_error_rendered" /\ result = TwitterError
    /\ dom.metas = <<>> /\ dom.body = "Something went wrong. Try reloading."

\* the address carries the maximum-resolution size parameter and no other one
FullSize(u) ==
    /\ EndsWith(u, MaxRes)
    /\ Cardinality(Occurrences(u, "name=")) = 1

\* C26: every photo of the media host in a result, whichever tier surfaced it,
\* carries the maximum-resolution size parameter and no smaller or missing one.
C26_MaxResolution ==
    (Returned /\ result.kind = "data") =>
        \A k \in 1..Len(result.media_urls) :
            Includes(result.media_urls[k], "pbs.twimg.com/media") => FullSize(result.media_urls[k])

\* C27: the meta-tag extraction on the rendered page is equivalent to the static
\* parser: for the same meta tags and the same URL both give the same author
\* name, handle, text and media list.
C27_SameAsStatic ==
    (Returned /\ via = "rendered_meta") =>
        LET static == extract_from_meta_tags(PageContent(dom), fx_url)
        IN /\ static # None
           /\ result.media_urls = static.media_urls
           /\ result.text = static.text
           /\ result.username = static.username
           /\ result.handle = static.handle

\* C28: in the author chain of the article a name or handle that an earlier
\* method resolved to a non-default value is never changed by a later method.
C28_ResolvedKept ==
    \A i \in 1..Len(aTrail) : \A j \in i..Len(aTrail) :
        /\ aTrail[i].username # "Unknown" => aTrail[j].username = aTrail[i].username
        /\ aTrail[i].handle # "@unknown" => aTrail[j].handle = aTrail[i].handle

\* among the first n events, every processing message shown has had its deletion
\* attempted
Settled(n) ==
    \A a \in 1..n :
        lLog[a][1] = "shown" =>
            \E b \in (a + 1)..n : lLog[b][1] \in {"deleted", "delete_failed"} /\ lLog[b][2] = lLog[a][2]

\* the URLs of the message in message order, without their brackets
MessageUrls ==
    LET urlWords == SelectSeq(lWords, LAMBDA w : w \in {"https://x.com/alice/status/42",
                                                        "<https://twitter.com/bob_1/status/7>"})
    IN [k \in 1..Len(urlWords) |->
           IF urlWords[k] = "https://x.com/alice/status/42" THEN urlWords[k]
           ELSE "https://twitter.com/bob_1/status/7"]

\* C29: the processing message of every URL started has its deletion attempted
\* before the next URL is started and before the handler ends, on every path;
\* the URLs of a message are started one after another in message order.
C29_ProcessingDeleted ==
    /\ \A j \in 1..Len(lLog) : lLog[j][1] = "start" => Settled(j - 1)
    /\ lpc \in {"returned", "raised"} => Settled(Len(lLog))
    /\ LET starts == SelectSeq(lLog, LAMBDA e : e[1] = "start")
       IN \A k \in 1..Len(starts) :
             /\ starts[k][2] = k
             /\ k <= Len(MessageUrls)
             /\ lUrls[k] = MessageUrls[k]

\* C29 witness: the handler returned after two URLs, the second of which raised
\* while sending, with both processing messages' deletions attempted
C29_Witness ==
    /\ lpc = "returned" /\ lIdx = 2 /\ lCaught /\ lPath = "media"
    /\ Len(SelectSeq(lLog, LAMBDA e : e[1] = "shown")) = 2
    /\ Len(SelectSeq(lLog, LAMBDA e : e[1] \in {"deleted", "delete_failed"})) = 2

\* C30: the only typed failure the call returns is twitter_error: it never returns
\* sensitive_content or another kind, so the caller answers a returned value with
\* the content, the Twitter Error text or the extraction-failed text only, and
\* every failure without a type is the bare value None.
C30_OnlyTwitterError ==
    Returned =>
        /\ result.error \in {"", "twitter_error"}
        /\ reply_for(result) \in {"content", "twitter_error", "extract_failed"}
        /\ (result.kind # "data" /\ result.error = "") => result = None

\* C30 witness: the rendered page was a source error page and the caller takes
\* its Twitter Error branch
C30_Witness ==
    /\ Returned /\ Count("content") = 1
    /\ result.kind = "error" /\ reply_for(result) = "twitter_error"

====
